---- MODULE Spec2Model ----
(***************************************************************************)
(* Model of the security core of medical-diary-pro:                        *)
(*   core/security_system.py        MedicalSecuritySystem (orchestrator)   *)
(*   core/security/access/memory.py MemoryAccessManager (sessions, log)    *)
(*   core/security/key_managers/default.py DefaultKeyManager               *)
(*   core/security/providers/aes_gcm.py    AESCryptoProvider               *)
(*   core/security/types.py         MasterKey, DataKey, EncryptedData,     *)
(*                                  AccessSession                          *)
(*                                                                         *)
(* Python dicts are functions whose DOMAIN is the set of present keys.     *)
(* Random material (secrets.token_bytes / token_hex) is modelled as fresh  *)
(* values: the n-th data key generated has key id n and key bytes n, the   *)
(* n-th session created has session id n.  PBKDF2 and AES-GCM are symbolic *)
(* terms: a derived key is the pair <<password, salt>>, a ciphertext is    *)
(* the record of the key, nonce, AAD and plaintext that produced it.       *)
(* Every public method runs to completion as one step, at clock `now`.     *)
(***************************************************************************)
EXTENDS Integers, Sequences, FiniteSets, TLC

\* ---------------------------------------------------------------- inputs
Doctors == {1, 2}
Patients == {5}
TwoPatients == {5, 6}
Passwords == {"", "pw0", "pw1"}
Plaintexts == {"", "AD"}
DoctorSalt == "salt"
UnknownSession == 0

\* bounds of the model
MaxLogLen == 3
MaxLogOne == 6
MaxLogSess == 3
MaxTime == 2
MaxDuration == 1
MaxLogAll == 4
MaxLogTwo == 6
MaxBlobs == 2
MaxCapacity == 3
MaxLogged == 5
MaxLogPerm == 2
MaxLogJson == 4
MaxWrapped == 2
MaxLogKdf == 2
MaxLogStats == 5
MaxLogFacade == 9
MaxLogRecords == 16
MaxLogCache == 9
MaxThreads == 2
MaxLogThreads == 3

\* AuthManager.revoke_token: the size above which the revoked set is cut, and the
\* size it is cut to.
RevokedLimit == 1000
RevokedKept == 500

\* security_system.py:57, memory.py:44
max_log_entries == 10000

\* SecurityConfig: the defaults of pbkdf2_iterations and pbkdf2_key_length and the
\* floors of __post_init__
DefaultIterations == 600000
MinIterations == 100000
DefaultKeyLength == 32
MinKeyLength == 32

NoKeyId == 0
NoBlob == [doctor_id |-> 0, patient_id |-> 0, plaintext |-> "", key_id |-> NoKeyId, json |-> <<>>]

VARIABLES
    master_keys,    \* MedicalSecuritySystem._master_keys : doctor -> MasterKey
    patient_keys,   \* MedicalSecuritySystem._patient_keys: doctor -> patient -> key id
    key_cache,      \* DefaultKeyManager._key_cache       : patient -> key id
    key_history,    \* DefaultKeyManager._key_history     : patient -> set of key ids
    data_keys,      \* the DataKey objects, by key id (shared by the three maps above)
    sessions,       \* MemoryAccessManager._sessions      : session id -> AccessSession
    access_logs,    \* MemoryAccessManager._access_logs   : sequence of log entries
    now,            \* datetime.now()
    issued,         \* blobs returned by encrypt_patient_data so far (held by callers)
    registered,     \* doctor -> password given to the last successful setup_doctor
    ret,            \* the last call: its name, arguments and outcome
    config,         \* what the components were constructed with, and what they kept
    stats,          \* MedicalSecuritySystem._stats
    facade,         \* MedicalCryptoFacade: _doctors, _patients, _medical_records,
                    \* _next_record_id
    threads,        \* the callers' threads: the call each is in, where it is in the
                    \* call's code, and its local variables
    revoked_tokens  \* AuthManager.revoked_tokens: which of Tokens it holds, and how
                    \* many further tokens

vars == <<master_keys, patient_keys, key_cache, key_history, data_keys,
          sessions, access_logs, now, issued, registered, ret, config, stats, facade,
          threads, revoked_tokens>>

\* ------------------------------------------------------------ dict helpers
Put(f, k, v) == [x \in DOMAIN f \cup {k} |-> IF x = k THEN v ELSE f[x]]
\* A del that removes nothing.
Del_nothing(f, k) == f

Del(f, k) == [x \in DOMAIN f \ {k} |-> f[x]]
EmptyDict == [x \in {} |-> 0]

\* ----------------------------------------------------------- configuration
\* SecurityConfig.__post_init__: both PBKDF2 parameters are raised to their floors.
SecurityConfig(pbkdf2_iterations, pbkdf2_key_length) ==
    [pbkdf2_iterations |-> IF pbkdf2_iterations < MinIterations
                           THEN MinIterations ELSE pbkdf2_iterations,
     pbkdf2_key_length |-> IF pbkdf2_key_length < MinKeyLength
                           THEN MinKeyLength ELSE pbkdf2_key_length]

\* DefaultKeyManager.__init__(config): the two parameters as the config has them.
DefaultKeyManager(cfg) ==
    [pbkdf2_iterations |-> cfg.pbkdf2_iterations,
     pbkdf2_key_length |-> cfg.pbkdf2_key_length]

\* The components as constructed.  via = "SecurityConfig": MedicalSecuritySystem
\* builds its DefaultKeyManager from a SecurityConfig; via = "direct": the caller
\* hands DefaultKeyManager a dict.  max_log is MemoryAccessManager.max_log_entries.
Configured(via, pbkdf2_iterations, pbkdf2_key_length, max_log) ==
    LET given == [pbkdf2_iterations |-> pbkdf2_iterations,
                  pbkdf2_key_length |-> pbkdf2_key_length]
        km == IF via = "SecurityConfig"
              THEN DefaultKeyManager(SecurityConfig(pbkdf2_iterations, pbkdf2_key_length))
              ELSE DefaultKeyManager(given)
    IN  [via |-> via, given |-> given,
         pbkdf2_iterations |-> km.pbkdf2_iterations,
         pbkdf2_key_length |-> km.pbkdf2_key_length,
         max_log_entries |-> max_log]

\* MedicalSecuritySystem(): SecurityConfig() and a log of 10000 entries.
DefaultConfig ==
    Configured("SecurityConfig", DefaultIterations, DefaultKeyLength, max_log_entries)

\* ------------------------------------------------------------- KeyManager
\* PBKDF2-HMAC-SHA256: the derived bytes are a function of all four arguments.
PBKDF2(password, salt, iterations, length) ==
    [password |-> password, salt |-> salt, iterations |-> iterations, length |-> length]

\* derive_master_key: ValueError on an empty password; else PBKDF2 with the
\* manager's iteration count and key length, the count recorded in the MasterKey.
derive_master_key(password, salt) ==
    IF password = ""
    THEN [exc |-> "ValueError", key_bytes |-> <<>>, salt |-> salt, iterations |-> 0]
    ELSE [exc |-> "",
          key_bytes |-> PBKDF2(password, salt, config.pbkdf2_iterations,
                               config.pbkdf2_key_length),
          salt |-> salt, iterations |-> config.pbkdf2_iterations]

\* verify_password: re-derive with master_key.salt and compare; False on any exception.
verify_password(password, master_key) ==
    LET test_key == derive_master_key(password, master_key.salt)
    IN  IF test_key.exc # "" THEN FALSE
        ELSE test_key.key_bytes = master_key.key_bytes

\* A fresh DataKey object: key id and key bytes are those of no earlier key.
NewKeyId(keys) == Len(keys) + 1

\* generate_data_key that starts the patient's history anew with the key it makes.
generate_data_key_new_history(km, patient_id) ==
    LET kid == Len(km.keys) + 1
        key == [key_id |-> kid, key_bytes |-> kid, patient_id |-> patient_id,
                last_rotated |-> -1]
    IN  [cache   |-> Put(km.cache, patient_id, kid),
         history |-> Put(km.history, patient_id, {kid}),
         keys    |-> Append(km.keys, key),
         key_id  |-> kid,
         exc     |-> ""]

\* generate_data_key on the KeyManager state km = [cache, history, keys].
generate_data_key(km, patient_id) ==
    LET kid == NewKeyId(km.keys)
        key == [key_id |-> kid, key_bytes |-> kid, patient_id |-> patient_id,
                last_rotated |-> -1]
    IN  [cache   |-> Put(km.cache, patient_id, kid),
         history |-> Put(km.history, patient_id,
                         (IF patient_id \in DOMAIN km.history
                          THEN km.history[patient_id] ELSE {}) \cup {kid}),
         keys    |-> Append(km.keys, key),
         key_id  |-> kid,
         exc     |-> ""]

\* get_key_for_patient: the cache only.
get_key_for_patient(km, patient_id) ==
    IF patient_id \in DOMAIN km.cache THEN km.cache[patient_id] ELSE NoKeyId

\* rotate_data_key that generates a first key for a patient without a current key.
rotate_data_key_or_generate(km, patient_id, t) ==
    LET current == get_key_for_patient(km, patient_id)
    IN  IF current = NoKeyId
        THEN generate_data_key(km, patient_id)
        ELSE LET marked == [km EXCEPT !.keys[current].last_rotated = t]
                 g == generate_data_key(marked, patient_id)
             IN  [g EXCEPT !.cache = Put(g.cache, patient_id, g.key_id)]

\* rotate_data_key: KeyRotationError without a current key; else stamp the current
\* key (mark_rotated), generate the successor and cache it.
rotate_data_key(km, patient_id, t) ==
    LET current == get_key_for_patient(km, patient_id)
    IN  IF current = NoKeyId
        THEN [cache |-> km.cache, history |-> km.history, keys |-> km.keys,
              key_id |-> NoKeyId, exc |-> "KeyRotationError"]
        ELSE LET marked == [km EXCEPT !.keys[current].last_rotated = t]
                 g == generate_data_key(marked, patient_id)
             IN  [g EXCEPT !.cache = Put(g.cache, patient_id, g.key_id)]

\* ---------------------------------------------------------- CryptoProvider
\* _generate_default_aad: key id, algorithm, created_at and salt hash of the key.
default_aad(key) == <<"aad", key.key_id>>

\* A byte string b is <<"bytes", b>>; the absent (None) AAD is NoAAD.
NoAAD == <<>>
Bytes(b) == <<"bytes", b>>

\* secrets.token_bytes(nonce_length): the nonce of the n-th encryption is n.
NewNonce(blobs) == Cardinality(blobs) + 1

AESGCM_encrypt(key_bytes, nonce, plaintext, aad) ==
    [key |-> key_bytes, nonce |-> nonce, aad |-> aad, pt |-> plaintext]

\* AESCryptoProvider.encrypt, with the nonce that secrets.token_bytes returns.
\* `additional_data or default`: None and the empty byte string both give the default.
provider_encrypt(plaintext, key, additional_data, nonce) ==
    IF plaintext = ""
    THEN [exc |-> "EncryptionError", blob |-> <<>>]
    ELSE LET aad == IF additional_data = NoAAD \/ additional_data = Bytes("")
                    THEN default_aad(key) ELSE additional_data
         IN  [exc |-> "",
              blob |-> [ciphertext |-> AESGCM_encrypt(key.key_bytes, nonce, plaintext, aad),
                        nonce |-> nonce, additional_data |-> aad,
                        version |-> "2.0", algorithm |-> "AES-256-GCM",
                        key_id |-> key.key_id]]

\* decrypt without the comparison of key ids.
provider_decrypt_any_key_id(blob, key) ==
    IF /\ blob.ciphertext.key = key.key_bytes
       /\ blob.ciphertext.nonce = blob.nonce
       /\ blob.ciphertext.aad = blob.additional_data
    THEN [exc |-> "", plaintext |-> blob.ciphertext.pt]
    ELSE [exc |-> "DecryptionError", plaintext |-> ""]

\* decrypt that leaves the blob's additional_data out of the AES-GCM call.
provider_decrypt_no_aad(blob, key) ==
    IF blob.key_id # NoKeyId /\ blob.key_id # key.key_id
    THEN [exc |-> "DecryptionError", plaintext |-> ""]
    ELSE IF /\ blob.ciphertext.key = key.key_bytes
            /\ blob.ciphertext.nonce = blob.nonce
         THEN [exc |-> "", plaintext |-> blob.ciphertext.pt]
         ELSE [exc |-> "DecryptionError", plaintext |-> ""]

\* AESCryptoProvider.decrypt: refuse a blob whose key_id is set and differs from the
\* key's, then AES-GCM decrypt (the tag binds key, nonce and AAD).
provider_decrypt(blob, key) ==
    IF blob.key_id # NoKeyId /\ blob.key_id # key.key_id
    THEN [exc |-> "DecryptionError", plaintext |-> ""]
    ELSE IF /\ blob.ciphertext.key = key.key_bytes
            /\ blob.ciphertext.nonce = blob.nonce
            /\ blob.ciphertext.aad = blob.additional_data
         THEN [exc |-> "", plaintext |-> blob.ciphertext.pt]
         ELSE [exc |-> "DecryptionError", plaintext |-> ""]

\* EncryptedData.to_json / from_json: the three byte fields travel base64-encoded.
b64encode(x) == <<"b64", x>>
b64decode(s) == s[2]

\* A JSON object is the function from the names of its fields to their values; a
\* key_id of None (NoKeyId) is written as null, which reads back as None.
to_json(blob) ==
    [ciphertext |-> b64encode(blob.ciphertext), nonce |-> b64encode(blob.nonce),
     additional_data |-> b64encode(blob.additional_data),
     version |-> blob.version, algorithm |-> blob.algorithm, key_id |-> blob.key_id]

NoEncryptedData == <<>>

\* from_json that leaves key_id at its default, None.
from_json_no_key_id(json) ==
    IF ~({"ciphertext", "nonce", "additional_data", "version", "algorithm"}
            \subseteq DOMAIN json)
    THEN [exc |-> "KeyError", blob |-> NoEncryptedData]
    ELSE [exc |-> "",
          blob |-> [ciphertext |-> b64decode(json.ciphertext),
                    nonce |-> b64decode(json.nonce),
                    additional_data |-> b64decode(json.additional_data),
                    version |-> json.version, algorithm |-> json.algorithm,
                    key_id |-> NoKeyId]]

\* from_json: data['ciphertext'] ... data['algorithm'] raise KeyError on a missing
\* field; data.get('key_id') is None for a missing key_id.
from_json(json) ==
    IF ~({"ciphertext", "nonce", "additional_data", "version", "algorithm"}
            \subseteq DOMAIN json)
    THEN [exc |-> "KeyError", blob |-> NoEncryptedData]
    ELSE [exc |-> "",
          blob |-> [ciphertext |-> b64decode(json.ciphertext),
                    nonce |-> b64decode(json.nonce),
                    additional_data |-> b64decode(json.additional_data),
                    version |-> json.version, algorithm |-> json.algorithm,
                    key_id |-> IF "key_id" \in DOMAIN json THEN json.key_id
                               ELSE NoKeyId]]

\* --------------------------------------------- KeyManager: wrap and unwrap
\* Byte strings are sequences of bytes; a str is the sequence of its code points.
Rep(b, n) == [i \in 1..n |-> b]

\* Python's s[a:b] on a sequence
PySlice(s, a, b) == SubSeq(s, a + 1, IF b < Len(s) THEN b ELSE Len(s))

\* str.encode('utf-8'), for code points below 2048
RECURSIVE utf8_encode(_)
utf8_encode(str) ==
    IF str = <<>> THEN <<>>
    ELSE (IF Head(str) < 128 THEN <<Head(str)>>
          ELSE <<192 + (Head(str) \div 64), 128 + (Head(str) % 64)>>)
         \o utf8_encode(Tail(str))

\* bytes.decode('utf-8'), for sequences of one and two bytes: UnicodeDecodeError on
\* a lone continuation byte, a lead byte without its continuation, or a byte that
\* starts no sequence.
RECURSIVE utf8_decode(_)
utf8_decode(bytes) ==
    IF bytes = <<>> THEN [exc |-> "", str |-> <<>>]
    ELSE IF bytes[1] < 128
    THEN LET rest == utf8_decode(Tail(bytes))
         IN  [exc |-> rest.exc,
              str |-> IF rest.exc # "" THEN <<>> ELSE <<bytes[1]>> \o rest.str]
    ELSE IF bytes[1] \in 194..223 /\ Len(bytes) >= 2 /\ bytes[2] \in 128..191
    THEN LET rest == utf8_decode(SubSeq(bytes, 3, Len(bytes)))
         IN  [exc |-> rest.exc,
              str |-> IF rest.exc # "" THEN <<>>
                      ELSE <<(bytes[1] - 192) * 64 + (bytes[2] - 128)>> \o rest.str]
    ELSE [exc |-> "UnicodeDecodeError", str |-> <<>>]

\* The exception classes default.py imports; raising a name it does not know is a
\* NameError.
ImportedErrors == {"CryptoError", "KeyRotationError"}
Raise(name) == IF name \in ImportedErrors THEN name ELSE "NameError"

\* AESGCM(key): ValueError unless the key has 128, 192 or 256 bits.
AESGCM_key_ok(key_bytes) == key_bytes.length \in {16, 24, 32}

\* AESGCM.encrypt(nonce, plaintext, aad): ciphertext and tag, one opaque value.
AESGCM_seal(key_bytes, nonce, plaintext, aad) ==
    <<[key |-> key_bytes, nonce |-> nonce, aad |-> aad, pt |-> plaintext]>>

\* AESGCM.decrypt(nonce, ciphertext, aad): ValueError on a nonce shorter than 8
\* bytes, InvalidTag unless the ciphertext was sealed under this key, nonce and aad.
AESGCM_open(key_bytes, nonce, ciphertext, aad) ==
    IF Len(nonce) < 8 THEN [exc |-> "ValueError", pt |-> <<>>]
    ELSE IF /\ Len(ciphertext) = 1
            /\ ciphertext[1].key = key_bytes
            /\ ciphertext[1].nonce = nonce
            /\ ciphertext[1].aad = aad
         THEN [exc |-> "", pt |-> ciphertext[1].pt]
         ELSE [exc |-> "InvalidTag", pt |-> <<>>]

NoDataKey == [key_id |-> <<>>, key_bytes |-> <<>>, salt |-> <<>>]

\* encrypt_data_key, with the nonce that secrets.token_bytes(12) returns:
\* nonce + AESGCM(master key).encrypt(nonce, key_bytes + salt + key_id, None);
\* any exception is reported as CryptoError.
encrypt_data_key(data_key, master_key, nonce) ==
    IF ~AESGCM_key_ok(master_key.key_bytes)
    THEN [exc |-> Raise("CryptoError"), wrapped |-> <<>>]
    ELSE LET plaintext == data_key.key_bytes \o data_key.salt
                            \o utf8_encode(data_key.key_id)
         IN  [exc |-> "",
              wrapped |-> nonce \o AESGCM_seal(master_key.key_bytes, nonce, plaintext,
                                               NoAAD)]

\* decrypt_data_key that takes the key id from byte 63 of the plaintext on.
decrypt_data_key_id_from_63(encrypted_key, master_key) ==
    LET nonce == PySlice(encrypted_key, 0, 12)
        ciphertext == PySlice(encrypted_key, 12, Len(encrypted_key))
        opened == IF ~AESGCM_key_ok(master_key.key_bytes)
                  THEN [exc |-> "ValueError", pt |-> <<>>]
                  ELSE AESGCM_open(master_key.key_bytes, nonce, ciphertext, NoAAD)
        key_bytes == PySlice(opened.pt, 0, 32)
        salt == PySlice(opened.pt, 32, 64)
        key_id == utf8_decode(PySlice(opened.pt, 63, Len(opened.pt)))
        raised == IF opened.exc # "" THEN opened.exc
                  ELSE IF key_id.exc # "" THEN key_id.exc
                  ELSE IF Len(key_bytes) # 32 THEN Raise("DecryptionError")
                  ELSE IF Len(salt) # 32 THEN Raise("DecryptionError")
                  ELSE ""
    IN  IF raised # ""
        THEN [exc |-> Raise("DecryptionError"), key |-> NoDataKey]
        ELSE [exc |-> "",
              key |-> [key_id |-> key_id.str, key_bytes |-> key_bytes, salt |-> salt]]

\* decrypt_data_key: split off the 12-byte nonce, AES-GCM decrypt, split the
\* plaintext at 32 and 64, decode the key id, check the two lengths; whatever is
\* raised inside the try is caught and DecryptionError raised in its place.
decrypt_data_key(encrypted_key, master_key) ==
    LET nonce == PySlice(encrypted_key, 0, 12)
        ciphertext == PySlice(encrypted_key, 12, Len(encrypted_key))
        opened == IF ~AESGCM_key_ok(master_key.key_bytes)
                  THEN [exc |-> "ValueError", pt |-> <<>>]
                  ELSE AESGCM_open(master_key.key_bytes, nonce, ciphertext, NoAAD)
        key_bytes == PySlice(opened.pt, 0, 32)
        salt == PySlice(opened.pt, 32, 64)
        key_id == utf8_decode(PySlice(opened.pt, 64, Len(opened.pt)))
        raised == IF opened.exc # "" THEN opened.exc
                  ELSE IF key_id.exc # "" THEN key_id.exc
                  ELSE IF Len(key_bytes) # 32 THEN Raise("DecryptionError")
                  ELSE IF Len(salt) # 32 THEN Raise("DecryptionError")
                  ELSE ""
    IN  IF raised # ""
        THEN [exc |-> Raise("DecryptionError"), key |-> NoDataKey]
        ELSE [exc |-> "",
              key |-> [key_id |-> key_id.str, key_bytes |-> key_bytes, salt |-> salt]]

\* ----------------------------------------------------------- AccessManager
\* The manager's state is am = [S |-> _sessions, L |-> _access_logs]; each method
\* returns the state it leaves and its return value r.

\* log_access that keeps the first max_log_entries entries of the log.
log_access_keep_first(logs, doctor_id, patient_id, action, success) ==
    LET appended == Append(logs, [doctor_id |-> doctor_id, patient_id |-> patient_id,
                                  action |-> action, success |-> success])
    IN  IF Len(appended) > config.max_log_entries
        THEN SubSeq(appended, 1, config.max_log_entries)
        ELSE appended

\* log_access: append, then keep the last self.max_log_entries entries.  (Timestamp,
\* details, ip_address and user_agent of an entry are not modelled.)
log_access(logs, doctor_id, patient_id, action, success) ==
    LET appended == Append(logs, [doctor_id |-> doctor_id, patient_id |-> patient_id,
                                  action |-> action, success |-> success])
    IN  IF Len(appended) > config.max_log_entries
        THEN SubSeq(appended, Len(appended) - config.max_log_entries + 1, Len(appended))
        ELSE appended

\* is_expired with the session still accepted one tick after expires_at.
is_expired_late(session, t) == t > session.expires_at + 1

\* AccessSession.is_expired
is_expired(session, t) == t > session.expires_at

\* A session id without its random part, f"session_{d}_{p}": the id of an earlier
\* session of the same doctor and patient when there is one.
NewSessionId_no_token(S, doctor_id, patient_id) ==
    LET same == {i \in DOMAIN S : S[i].doctor_id = doctor_id
                                  /\ S[i].patient_id = patient_id}
    IN  IF same # {} THEN CHOOSE i \in same : \A j \in same : i <= j ELSE Len(S) + 1

\* The id of a new session: f"session_{d}_{p}_{token_hex(8)}", an id no session has.
NewSessionId(S, doctor_id, patient_id) == Len(S) + 1

\* The permission names of _get_default_permissions.
ViewNames ==
    {"view_patient_info", "view_medical_records", "view_measurements",
     "view_prescriptions"}
ChangeNames == {"edit_records", "create_records", "delete_records", "export_data"}

\* _get_default_permissions(access_type)
get_default_permissions(access_type) ==
    IF access_type = "view"
    THEN [n \in ViewNames \cup ChangeNames |-> n \in ViewNames]
    ELSE IF access_type = "edit"
    THEN [n \in ViewNames \cup ChangeNames |-> n # "delete_records"]
    ELSE IF access_type = "emergency"
    THEN [n \in ViewNames \cup ChangeNames \cup {"emergency_access"} |-> TRUE]
    ELSE EmptyDict

\* AccessSession.__post_init__: an empty permission map is replaced by
\* read / write / delete according to the access type.
AccessSession_post_init(access_type, permissions) ==
    IF DOMAIN permissions = {}
    THEN [n \in {"read", "write", "delete"} |->
             \/ n = "read"
             \/ n = "write" /\ access_type \in {"edit", "emergency"}
             \/ n = "delete" /\ access_type = "emergency"]
    ELSE permissions

\* AccessSession.has_permission: permissions.get(permission, False)
has_permission(session, permission) ==
    permission \in DOMAIN session.permissions /\ session.permissions[permission]

\* The permissions argument of create_session: None, or a map the caller supplies.
NoPermissions == [given |-> FALSE, map |-> EmptyDict]
Supplied(map) == [given |-> TRUE, map |-> map]

\* create_session: store the session under its id and log 'create_session'.
create_session(am, doctor_id, patient_id, access_type, permissions, duration, t) ==
    LET sid == NewSessionId(am.S, doctor_id, patient_id)
        perms == IF ~permissions.given THEN get_default_permissions(access_type)
                 ELSE permissions.map
        session == [doctor_id |-> doctor_id, patient_id |-> patient_id,
                    access_type |-> access_type,
                    permissions |-> AccessSession_post_init(access_type, perms),
                    expires_at |-> t + duration, last_used |-> -1, is_active |-> TRUE]
    IN  [S |-> Put(am.S, sid, session),
         L |-> log_access(am.L, doctor_id, patient_id, "create_session", TRUE),
         r |-> sid]

\* get_session: the session (here: whether it is present), touching last_used of
\* an active one.
get_session(am, session_id, t) ==
    IF session_id \in DOMAIN am.S
    THEN [S |-> IF am.S[session_id].is_active
                THEN [am.S EXCEPT ![session_id].last_used = t] ELSE am.S,
          L |-> am.L, r |-> TRUE]
    ELSE [S |-> am.S, L |-> am.L, r |-> FALSE]

\* revoke_session without its check that the session is still active.
revoke_session_unchecked(am, session_id) ==
    IF session_id \in DOMAIN am.S
    THEN [S |-> [am.S EXCEPT ![session_id].is_active = FALSE],
          L |-> Append(am.L, [doctor_id |-> am.S[session_id].doctor_id,
                              patient_id |-> am.S[session_id].patient_id,
                              action |-> "revoke_session", success |-> TRUE]),
          r |-> TRUE]
    ELSE [S |-> am.S, L |-> am.L, r |-> FALSE]

\* revoke_session: deactivate an active session and log 'revoke_session'.
revoke_session(am, session_id) ==
    IF session_id \in DOMAIN am.S
    THEN IF ~am.S[session_id].is_active
         THEN [S |-> am.S, L |-> am.L, r |-> FALSE]
         ELSE [S |-> [am.S EXCEPT ![session_id].is_active = FALSE],
               L |-> log_access(am.L, am.S[session_id].doctor_id,
                                am.S[session_id].patient_id, "revoke_session", TRUE),
               r |-> TRUE]
    ELSE [S |-> am.S, L |-> am.L, r |-> FALSE]

\* validate_session
validate_session(am, session_id, t) ==
    LET g == get_session(am, session_id, t)
    IN  IF ~g.r THEN [g EXCEPT !.r = FALSE]
        ELSE IF ~g.S[session_id].is_active THEN [g EXCEPT !.r = FALSE]
        ELSE IF is_expired(g.S[session_id], t)
             THEN [revoke_session([S |-> g.S, L |-> g.L], session_id) EXCEPT !.r = FALSE]
             ELSE [g EXCEPT !.r = TRUE]

\* The loop of revoke_all_sessions without its patient filter.
RECURSIVE revoke_all_from_any_patient(_, _, _, _, _)
revoke_all_from_any_patient(am, doctor_id, patient_id, i, count) ==
    IF i \notin DOMAIN am.S THEN [S |-> am.S, L |-> am.L, r |-> count]
    ELSE IF am.S[i].doctor_id = doctor_id /\ am.S[i].is_active
         THEN LET rv == revoke_session(am, i)
              IN  revoke_all_from_any_patient([S |-> rv.S, L |-> rv.L], doctor_id,
                                              patient_id, i + 1,
                                              IF rv.r THEN count + 1 ELSE count)
         ELSE revoke_all_from_any_patient(am, doctor_id, patient_id, i + 1, count)

\* The loop of revoke_all_sessions over _sessions.items(), from session i on;
\* patient_id = 0 stands for None.  r counts the sessions revoked.
RECURSIVE revoke_all_from(_, _, _, _, _)
revoke_all_from(am, doctor_id, patient_id, i, count) ==
    IF i \notin DOMAIN am.S THEN [S |-> am.S, L |-> am.L, r |-> count]
    ELSE IF /\ am.S[i].doctor_id = doctor_id
            /\ am.S[i].is_active
            /\ (patient_id = 0 \/ am.S[i].patient_id = patient_id)
         THEN LET rv == revoke_session(am, i)
              IN  revoke_all_from([S |-> rv.S, L |-> rv.L], doctor_id, patient_id, i + 1,
                                  IF rv.r THEN count + 1 ELSE count)
         ELSE revoke_all_from(am, doctor_id, patient_id, i + 1, count)

\* revoke_all_sessions: revoke, then log 'revoke_all_sessions'.
revoke_all_sessions(am, doctor_id, patient_id) ==
    LET done == revoke_all_from(am, doctor_id, patient_id, 1, 0)
    IN  [done EXCEPT !.L = log_access(done.L, doctor_id, patient_id,
                                      "revoke_all_sessions", TRUE)]

\* The loop of get_active_sessions; doctor_id = 0 / patient_id = 0 stand for None.
\* r is the set of ids of the sessions returned.
RECURSIVE get_active_from(_, _, _, _, _, _)
get_active_from(am, doctor_id, patient_id, t, i, acc) ==
    IF i \notin DOMAIN am.S THEN [S |-> am.S, L |-> am.L, r |-> acc]
    ELSE IF ~am.S[i].is_active
         THEN get_active_from(am, doctor_id, patient_id, t, i + 1, acc)
    ELSE IF is_expired(am.S[i], t)
         THEN LET rv == revoke_session(am, i)
              IN  get_active_from([S |-> rv.S, L |-> rv.L], doctor_id, patient_id, t,
                                  i + 1, acc)
    ELSE IF doctor_id # 0 /\ am.S[i].doctor_id # doctor_id
         THEN get_active_from(am, doctor_id, patient_id, t, i + 1, acc)
    ELSE IF patient_id # 0 /\ am.S[i].patient_id # patient_id
         THEN get_active_from(am, doctor_id, patient_id, t, i + 1, acc)
    ELSE get_active_from(am, doctor_id, patient_id, t, i + 1, acc \cup {i})

get_active_sessions(am, doctor_id, patient_id, t) ==
    get_active_from(am, doctor_id, patient_id, t, 1, {})

\* The loop of cleanup_expired_sessions; r counts the sessions revoked.
RECURSIVE cleanup_from(_, _, _, _)
cleanup_from(am, t, i, count) ==
    IF i \notin DOMAIN am.S THEN [S |-> am.S, L |-> am.L, r |-> count]
    ELSE IF is_expired(am.S[i], t) /\ am.S[i].is_active
         THEN LET rv == revoke_session(am, i)
              IN  cleanup_from([S |-> rv.S, L |-> rv.L], t, i + 1,
                               IF rv.r THEN count + 1 ELSE count)
         ELSE cleanup_from(am, t, i + 1, count)

\* A cleanup that deactivates every active session, expired or not.
cleanup_every_session(am, t) ==
    [S |-> [i \in DOMAIN am.S |-> [am.S[i] EXCEPT !.is_active = FALSE]],
     L |-> am.L,
     r |-> Cardinality({i \in DOMAIN am.S : am.S[i].is_active})]

cleanup_expired_sessions(am, t) == cleanup_from(am, t, 1, 0)

\* ---------------------------------------------------------- SecuritySystem
\* A counter that starts again at one.
Bump_restart(counters, counter) == [counters EXCEPT ![counter] = 1]

\* self._stats[counter] += 1
Bump(counters, counter) == [counters EXCEPT ![counter] = @ + 1]

KM == [cache |-> key_cache, history |-> key_history, keys |-> data_keys]
AM == [S |-> sessions, L |-> access_logs]

Ret(op, d, p, sid, arg, result, out, blob) ==
    [op |-> op, doctor_id |-> d, patient_id |-> p, session_id |-> sid, arg |-> arg,
     result |-> result, out |-> out, blob |-> blob]

\* The model explores the calls made while the log has fewer than n entries, and
\* the calls that log nothing.
LogWithin(n) == Len(access_logs) < n \/ access_logs' = access_logs

\* get_patient_key on a cache that holds one key per doctor: the key of whichever
\* patient the doctor set up.
get_patient_key_per_doctor(pk, doctor_id, patient_id) ==
    IF doctor_id \in DOMAIN pk /\ DOMAIN pk[doctor_id] # {}
    THEN pk[doctor_id][CHOOSE q \in DOMAIN pk[doctor_id] : TRUE] ELSE NoKeyId

\* get_patient_key: the SecuritySystem's own cache only.
get_patient_key(pk, doctor_id, patient_id) ==
    IF doctor_id \in DOMAIN pk /\ patient_id \in DOMAIN pk[doctor_id]
    THEN pk[doctor_id][patient_id] ELSE NoKeyId

\* _check_doctor_access
check_doctor_access(doctor_id, patient_id) == TRUE

\* setup_patient that asks for no master key.
setup_patient_any_doctor(st, doctor_id, patient_id) ==
    LET g == generate_data_key(st.km, patient_id)
        mine == IF doctor_id \in DOMAIN st.pk THEN st.pk[doctor_id] ELSE EmptyDict
    IN  [mk |-> st.mk,
         pk |-> Put(st.pk, doctor_id, Put(mine, patient_id, g.key_id)),
         km |-> [cache |-> g.cache, history |-> g.history, keys |-> g.keys],
         L  |-> log_access(st.L, doctor_id, patient_id, "setup_patient", TRUE),
         exc |-> "", key_id |-> g.key_id]

\* setup_patient on st = [mk, pk, km, L]: CryptoError (nothing logged) without a
\* cached master key; else generate a data key, cache it and log 'setup_patient'.
setup_patient(st, doctor_id, patient_id) ==
    IF doctor_id \notin DOMAIN st.mk
    THEN [mk |-> st.mk, pk |-> st.pk, km |-> st.km, L |-> st.L,
          exc |-> "CryptoError", key_id |-> NoKeyId]
    ELSE LET g == generate_data_key(st.km, patient_id)
             mine == IF doctor_id \in DOMAIN st.pk THEN st.pk[doctor_id] ELSE EmptyDict
         IN  [mk |-> st.mk,
              pk |-> Put(st.pk, doctor_id, Put(mine, patient_id, g.key_id)),
              km |-> [cache |-> g.cache, history |-> g.history, keys |-> g.keys],
              L  |-> log_access(st.L, doctor_id, patient_id, "setup_patient", TRUE),
              exc |-> "", key_id |-> g.key_id]

ST == [mk |-> master_keys, pk |-> patient_keys, km |-> KM, L |-> access_logs,
       stats |-> stats]

\* encrypt_patient_data on st = [mk, pk, km, L, stats].  aad is what the method makes
\* of its additional_data: None (NoAAD) for None or an empty dict, else the bytes of
\* its JSON.  A patient without a cached key is set up first; setup_patient's
\* CryptoError propagates.  json is the string returned.
encrypt_patient_data(st, doctor_id, patient_id, plaintext, aad, nonce) ==
    LET cached == get_patient_key(st.pk, doctor_id, patient_id)
        sp == IF cached = NoKeyId THEN setup_patient(st, doctor_id, patient_id)
              ELSE [mk |-> st.mk, pk |-> st.pk, km |-> st.km, L |-> st.L,
                    exc |-> "", key_id |-> cached]
    IN  IF sp.exc # ""
        THEN [pk |-> sp.pk, km |-> sp.km, L |-> sp.L, stats |-> st.stats,
              exc |-> sp.exc, key_id |-> NoKeyId, json |-> <<>>]
        ELSE LET enc == provider_encrypt(plaintext, sp.km.keys[sp.key_id], aad, nonce)
             IN  IF enc.exc # ""
                 THEN [pk |-> sp.pk, km |-> sp.km,
                       L |-> log_access(sp.L, doctor_id, patient_id, "encrypt_data",
                                        FALSE),
                       stats |-> Bump(st.stats, "errors"),
                       exc |-> "CryptoError", key_id |-> NoKeyId, json |-> <<>>]
                 ELSE [pk |-> sp.pk, km |-> sp.km,
                       L |-> log_access(sp.L, doctor_id, patient_id, "encrypt_data",
                                        TRUE),
                       stats |-> Bump(st.stats, "encryptions"),
                       exc |-> "", key_id |-> sp.key_id, json |-> to_json(enc.blob)]

\* decrypt_patient_data on st: AccessDeniedError, or CryptoError for a doctor without
\* a cached key of the patient, before anything is logged; else parse and decrypt,
\* any exception logged and reported as CryptoError.
decrypt_patient_data(st, doctor_id, patient_id, json) ==
    IF ~check_doctor_access(doctor_id, patient_id)
    THEN [L |-> st.L, stats |-> st.stats, exc |-> "AccessDeniedError", plaintext |-> ""]
    ELSE LET kid == get_patient_key(st.pk, doctor_id, patient_id)
         IN  IF kid = NoKeyId
             THEN [L |-> st.L, stats |-> st.stats, exc |-> "CryptoError",
                   plaintext |-> ""]
             ELSE LET parsed == from_json(json)
                      dec == IF parsed.exc # ""
                             THEN [exc |-> parsed.exc, plaintext |-> ""]
                             ELSE provider_decrypt(parsed.blob, st.km.keys[kid])
                  IN  IF dec.exc # ""
                      THEN [L |-> log_access(st.L, doctor_id, patient_id,
                                             "decrypt_data", FALSE),
                            stats |-> Bump(st.stats, "errors"),
                            exc |-> "CryptoError", plaintext |-> ""]
                      ELSE [L |-> log_access(st.L, doctor_id, patient_id,
                                             "decrypt_data", TRUE),
                            stats |-> Bump(st.stats, "decryptions"),
                            exc |-> "", plaintext |-> dec.plaintext]

\* The MasterKey object that derive_master_key returned.
MasterKey(mk) == [key_bytes |-> mk.key_bytes, salt |-> mk.salt, iterations |-> mk.iterations]

\* setup_doctor(doctor_id, password, DoctorSalt)
SetupDoctor(d, pw) ==
    LET mk == derive_master_key(pw, DoctorSalt)
    IN  /\ IF mk.exc = ""
           THEN /\ master_keys' = Put(master_keys, d, MasterKey(mk))
                /\ access_logs' = log_access(access_logs, d, 0, "setup_doctor", TRUE)
                /\ registered' = Put(registered, d, pw)
                /\ ret' = Ret("setup_doctor", d, 0, 0, pw, "ok", "", NoBlob)
                /\ UNCHANGED stats
           ELSE /\ stats' = Bump(stats, "errors")
                /\ access_logs' = log_access(access_logs, d, 0, "setup_doctor", FALSE)
                /\ ret' = Ret("setup_doctor", d, 0, 0, pw, "CryptoError", "", NoBlob)
                /\ UNCHANGED <<master_keys, registered>>
        /\ UNCHANGED <<patient_keys, key_cache, key_history, data_keys, sessions, now, revoked_tokens, threads,
                       issued,
                       config, facade>>

\* login_doctor(doctor_id, password, DoctorSalt)
LoginDoctor(d, pw) ==
    LET mk == derive_master_key(pw, DoctorSalt)
        is_valid == mk.exc = "" /\ verify_password(pw, mk)
    IN  /\ IF mk.exc # ""
           THEN /\ stats' = Bump(stats, "errors")
                /\ access_logs' = log_access(access_logs, d, 0, "login", FALSE)
                /\ UNCHANGED master_keys
           ELSE IF is_valid
           THEN /\ master_keys' = Put(master_keys, d, MasterKey(mk))
                /\ access_logs' = log_access(access_logs, d, 0, "login", TRUE)
                /\ UNCHANGED stats
           ELSE /\ access_logs' = log_access(access_logs, d, 0, "login", FALSE)
                /\ UNCHANGED <<master_keys, stats>>
        /\ ret' = Ret("login_doctor", d, 0, 0, pw, IF is_valid THEN "true" ELSE "false",
                      "", NoBlob)
        /\ UNCHANGED <<patient_keys, key_cache, key_history, data_keys, sessions, now, revoked_tokens, threads,
                       issued, registered,
                       config, facade>>

\* logout_doctor that leaves the doctor's cached patient keys in place.
LogoutDoctor_keeps_keys(d) ==
    /\ IF d \in DOMAIN master_keys
       THEN LET rv == revoke_all_sessions(AM, d, 0)
            IN  /\ master_keys' = Del(master_keys, d)
                /\ sessions' = rv.S
                /\ access_logs' = log_access(rv.L, d, 0, "logout", TRUE)
                /\ ret' = Ret("logout_doctor", d, 0, 0, "", "true", "", NoBlob)
                /\ UNCHANGED patient_keys
       ELSE /\ ret' = Ret("logout_doctor", d, 0, 0, "", "false", "", NoBlob)
            /\ UNCHANGED <<master_keys, sessions, patient_keys, access_logs>>
    /\ UNCHANGED <<key_cache, key_history, data_keys, now, revoked_tokens, threads, issued, registered,
                   config, stats, facade>>

\* logout_doctor(doctor_id)
LogoutDoctor(d) ==
    /\ IF d \in DOMAIN master_keys
       THEN LET rv == revoke_all_sessions(AM, d, 0)
            IN  /\ master_keys' = Del(master_keys, d)
                /\ sessions' = rv.S
                /\ patient_keys' = Del(patient_keys, d)
                /\ access_logs' = log_access(rv.L, d, 0, "logout", TRUE)
                /\ ret' = Ret("logout_doctor", d, 0, 0, "", "true", "", NoBlob)
       ELSE /\ ret' = Ret("logout_doctor", d, 0, 0, "", "false", "", NoBlob)
            /\ UNCHANGED <<master_keys, sessions, patient_keys, access_logs>>
    /\ UNCHANGED <<key_cache, key_history, data_keys, now, revoked_tokens, threads, issued, registered,
                   config, stats, facade>>

\* setup_patient(doctor_id, patient_id)
SetupPatient(d, p) ==
    LET sp == setup_patient(ST, d, p)
    IN  /\ patient_keys' = sp.pk
        /\ key_cache' = sp.km.cache
        /\ key_history' = sp.km.history
        /\ data_keys' = sp.km.keys
        /\ access_logs' = sp.L
        /\ ret' = Ret("setup_patient", d, p, 0, "",
                      IF sp.exc = "" THEN "ok" ELSE sp.exc, sp.key_id, NoBlob)
        /\ UNCHANGED <<master_keys, sessions, now, revoked_tokens, threads, issued, registered,
                       config, stats, facade>>

\* rotate_patient_key(doctor_id, patient_id)
RotatePatientKey(d, p) ==
    /\ IF d \notin DOMAIN master_keys
       THEN /\ ret' = Ret("rotate_patient_key", d, p, 0, "", "CryptoError", "", NoBlob)
            /\ UNCHANGED <<patient_keys, key_cache, key_history, data_keys, access_logs,
                           stats>>
       ELSE LET rot == rotate_data_key(KM, p, now)
                mine == IF d \in DOMAIN patient_keys THEN patient_keys[d] ELSE EmptyDict
            IN  IF rot.exc # ""
                THEN /\ stats' = Bump(stats, "errors")
                     /\ access_logs' = log_access(access_logs, d, p, "rotate_key", FALSE)
                     /\ ret' = Ret("rotate_patient_key", d, p, 0, "", "CryptoError", "",
                                   NoBlob)
                     /\ key_cache' = rot.cache
                     /\ key_history' = rot.history
                     /\ data_keys' = rot.keys
                     /\ UNCHANGED patient_keys
                ELSE /\ patient_keys' = Put(patient_keys, d, Put(mine, p, rot.key_id))
                     /\ key_cache' = rot.cache
                     /\ key_history' = rot.history
                     /\ data_keys' = rot.keys
                     /\ access_logs' = log_access(access_logs, d, p, "rotate_key", TRUE)
                     /\ UNCHANGED stats
                     /\ ret' = Ret("rotate_patient_key", d, p, 0, "", "ok", rot.key_id,
                                   NoBlob)
    /\ UNCHANGED <<master_keys, sessions, now, revoked_tokens, threads, issued, registered,
                   config, facade>>

\* encrypt_patient_data(doctor_id, patient_id, plaintext): additional_data is None.
\* The blob returned is kept in `issued`.
EncryptPatientData(d, p, plaintext) ==
    LET e == encrypt_patient_data(ST, d, p, plaintext, NoAAD, NewNonce(issued))
        b == [doctor_id |-> d, patient_id |-> p, plaintext |-> plaintext,
              key_id |-> e.key_id, json |-> e.json]
    IN  /\ patient_keys' = e.pk
        /\ key_cache' = e.km.cache
        /\ key_history' = e.km.history
        /\ data_keys' = e.km.keys
        /\ access_logs' = e.L
        /\ stats' = e.stats
        /\ IF e.exc # ""
           THEN /\ ret' = Ret("encrypt_patient_data", d, p, 0, plaintext, e.exc, "",
                              NoBlob)
                /\ UNCHANGED issued
           ELSE /\ ret' = Ret("encrypt_patient_data", d, p, 0, plaintext, "ok", "", b)
                /\ issued' = issued \cup {b}
        /\ UNCHANGED <<master_keys, sessions, now, revoked_tokens, threads, registered,
                       config, facade>>

\* decrypt_patient_data(doctor_id, patient_id, b.json): b is a blob that an earlier
\* encrypt_patient_data returned, or one a caller made of it.
DecryptPatientData(d, p, b) ==
    LET dec == decrypt_patient_data(ST, d, p, b.json)
    IN  /\ access_logs' = dec.L
        /\ stats' = dec.stats
        /\ ret' = Ret("decrypt_patient_data", d, p, 0, "",
                      IF dec.exc # "" THEN dec.exc ELSE "ok", dec.plaintext, b)
        /\ UNCHANGED <<master_keys, patient_keys, key_cache, key_history, data_keys,
                       sessions, now, revoked_tokens, threads, issued, registered,
                       config, facade>>

\* clear_cache()
ClearCache ==
    /\ master_keys' = EmptyDict
    /\ patient_keys' = EmptyDict
    /\ key_cache' = EmptyDict
    /\ ret' = Ret("clear_cache", 0, 0, 0, "", "ok", "", NoBlob)
    /\ UNCHANGED <<key_history, data_keys, sessions, access_logs, now, revoked_tokens, threads, issued,
                   registered,
                   config, stats, facade>>

\* create_access_session(doctor_id, patient_id, duration_hours=duration), of the
\* default access_type 'view'.
CreateAccessSession(d, p, duration) ==
    LET c == create_session(AM, d, p, "view", NoPermissions, duration, now)
    IN  /\ sessions' = c.S
        /\ access_logs' = c.L
        /\ stats' = Bump(stats, "sessions_created")
        /\ ret' = Ret("create_access_session", d, p, c.r, "", "ok", "", NoBlob)
        /\ UNCHANGED <<master_keys, patient_keys, key_cache, key_history, data_keys,
                       now, revoked_tokens, threads, issued, registered,
                       config, facade>>

\* validate_access_session(session_id)
ValidateAccessSession(sid) ==
    LET v == validate_session(AM, sid, now)
    IN  /\ sessions' = v.S
        /\ access_logs' = v.L
        /\ ret' = Ret("validate_session", 0, 0, sid, "",
                      IF v.r THEN "true" ELSE "false", "", NoBlob)
        /\ UNCHANGED <<master_keys, patient_keys, key_cache, key_history, data_keys,
                       now, revoked_tokens, threads, issued, registered,
                       config, stats, facade>>

\* get_session(session_id)
GetSession(sid) ==
    LET g == get_session(AM, sid, now)
    IN  /\ sessions' = g.S
        /\ ret' = Ret("get_session", 0, 0, sid, "", IF g.r THEN "ok" ELSE "None", "",
                      NoBlob)
        /\ UNCHANGED <<master_keys, patient_keys, key_cache, key_history, data_keys,
                       access_logs, now, revoked_tokens, threads, issued, registered,
                       config, stats, facade>>

\* revoke_session(session_id)
RevokeSession(sid) ==
    LET rv == revoke_session(AM, sid)
    IN  /\ sessions' = rv.S
        /\ access_logs' = rv.L
        /\ ret' = Ret("revoke_session", 0, 0, sid, "",
                      IF rv.r THEN "true" ELSE "false", "", NoBlob)
        /\ UNCHANGED <<master_keys, patient_keys, key_cache, key_history, data_keys,
                       now, revoked_tokens, threads, issued, registered,
                       config, stats, facade>>

\* access_manager.revoke_all_sessions(doctor_id, patient_id); p = 0 is None.
RevokeAllSessions(d, p) ==
    LET rv == revoke_all_sessions(AM, d, p)
    IN  /\ sessions' = rv.S
        /\ access_logs' = rv.L
        /\ ret' = Ret("revoke_all_sessions", d, p, 0, "", "ok", rv.r, NoBlob)
        /\ UNCHANGED <<master_keys, patient_keys, key_cache, key_history, data_keys,
                       now, revoked_tokens, threads, issued, registered,
                       config, stats, facade>>

\* get_active_sessions(doctor_id, patient_id); 0 is None.
GetActiveSessions(d, p) ==
    LET ga == get_active_sessions(AM, d, p, now)
    IN  /\ sessions' = ga.S
        /\ access_logs' = ga.L
        /\ ret' = Ret("get_active_sessions", d, p, 0, "", "ok", ga.r, NoBlob)
        /\ UNCHANGED <<master_keys, patient_keys, key_cache, key_history, data_keys,
                       now, revoked_tokens, threads, issued, registered,
                       config, stats, facade>>

\* cleanup_expired_sessions()
CleanupExpiredSessions ==
    LET cl == cleanup_expired_sessions(AM, now)
    IN  /\ sessions' = cl.S
        /\ access_logs' = cl.L
        /\ ret' = Ret("cleanup_expired_sessions", 0, 0, 0, "", "ok", cl.r, NoBlob)
        /\ UNCHANGED <<master_keys, patient_keys, key_cache, key_history, data_keys,
                       now, revoked_tokens, threads, issued, registered,
                       config, stats, facade>>

\* The clock advances between calls.
Tick ==
    /\ now < MaxTime
    /\ now' = now + 1
    /\ ret' = Ret("tick", 0, 0, 0, "", "ok", "", NoBlob)
    /\ UNCHANGED <<master_keys, patient_keys, key_cache, key_history, data_keys,
                   sessions, access_logs, issued, registered,
                   config, stats, facade, threads, revoked_tokens>>

\* ------------------------------------------------------------ threads
\* Threads that call into one MedicalSecuritySystem.  No method of the system, of
\* DefaultKeyManager or of MemoryAccessManager takes a lock, so another thread may
\* run between any two statements of a call; each action below is one stretch of a
\* call's code that is taken here without interruption.
Threads == 1..MaxThreads

\* A thread in the call op(d, p, sid), at pc, with the call's local variables:
\* key (data_key / current_key / new_key), seen (the counter value read by += 1),
\* counter (the counter being incremented), blob (the EncryptedData made),
\* revoked (what the call's revoke_session returned), result (what the call returned).
Thread(pc, op, d, p, sid) ==
    [pc |-> pc, op |-> op, doctor_id |-> d, patient_id |-> p, session_id |-> sid,
     key |-> NoKeyId, seen |-> 0, counter |-> "", blob |-> NoBlob, revoked |-> "",
     result |-> ""]

Idle == Thread("idle", "", 0, 0, 0)

At(t, op, pc) == threads[t].op = op /\ threads[t].pc = pc

\* The thread's call returns result.
Return(t, result) ==
    /\ threads' = [threads EXCEPT ![t].pc = "done", ![t].result = result]
    /\ ret' = Ret(threads[t].op, threads[t].doctor_id, threads[t].patient_id,
                  threads[t].session_id, "", result, threads[t].key, threads[t].blob)

\* A thread enters a call.
Call(t, op, d, p, sid) ==
    /\ threads[t].pc = "idle"
    /\ threads' = [threads EXCEPT ![t] = Thread("start", op, d, p, sid)]
    /\ UNCHANGED <<master_keys, patient_keys, key_cache, key_history, data_keys,
                   sessions, access_logs, now, revoked_tokens, issued, registered, ret, config, stats,
                   facade>>

\* rotate_patient_key: the master key test.
RotStart(t) ==
    /\ At(t, "rotate_patient_key", "start")
    /\ IF threads[t].doctor_id \notin DOMAIN master_keys
       THEN Return(t, "CryptoError")
       ELSE /\ threads' = [threads EXCEPT ![t].pc = "lookup"]
            /\ UNCHANGED ret
    /\ UNCHANGED <<master_keys, patient_keys, key_cache, key_history, data_keys,
                   sessions, access_logs, now, revoked_tokens, issued, registered, config, stats,
                   facade>>

\* rotate_data_key: current_key = get_key_for_patient(...); without one the
\* KeyRotationError is caught by rotate_patient_key, counted, logged and re-raised.
RotLookup(t) ==
    LET current == get_key_for_patient(KM, threads[t].patient_id)
    IN  /\ At(t, "rotate_patient_key", "lookup")
        /\ IF current = NoKeyId
           THEN /\ stats' = Bump(stats, "errors")
                /\ access_logs' = log_access(access_logs, threads[t].doctor_id,
                                             threads[t].patient_id, "rotate_key", FALSE)
                /\ Return(t, "CryptoError")
           ELSE /\ threads' = [threads EXCEPT ![t].pc = "mark", ![t].key = current]
                /\ UNCHANGED <<stats, access_logs, ret>>
        /\ UNCHANGED <<master_keys, patient_keys, key_cache, key_history, data_keys,
                       sessions, now, revoked_tokens, issued, registered, config, facade>>

\* rotate_data_key: current_key.mark_rotated()
RotMark(t) ==
    /\ At(t, "rotate_patient_key", "mark")
    /\ data_keys' = [data_keys EXCEPT ![threads[t].key].last_rotated = now]
    /\ threads' = [threads EXCEPT ![t].pc = "generate"]
    /\ UNCHANGED <<master_keys, patient_keys, key_cache, key_history, sessions,
                   access_logs, now, revoked_tokens, issued, registered, ret, config, stats, facade>>

\* rotate_data_key: new_key = generate_data_key(patient_id); _key_cache[p] = new_key
RotGenerate(t) ==
    LET g == generate_data_key(KM, threads[t].patient_id)
    IN  /\ At(t, "rotate_patient_key", "generate")
        /\ key_cache' = Put(g.cache, threads[t].patient_id, g.key_id)
        /\ key_history' = g.history
        /\ data_keys' = g.keys
        /\ threads' = [threads EXCEPT ![t].pc = "update", ![t].key = g.key_id]
        /\ UNCHANGED <<master_keys, patient_keys, sessions, access_logs, now, revoked_tokens, issued,
                       registered, ret, config, stats, facade>>

\* rotate_patient_key: _patient_keys[d][p] = new_key, log 'rotate_key', return.
RotUpdate(t) ==
    LET d == threads[t].doctor_id
        mine == IF d \in DOMAIN patient_keys THEN patient_keys[d] ELSE EmptyDict
    IN  /\ At(t, "rotate_patient_key", "update")
        /\ patient_keys' = Put(patient_keys, d,
                               Put(mine, threads[t].patient_id, threads[t].key))
        /\ access_logs' = log_access(access_logs, d, threads[t].patient_id,
                                     "rotate_key", TRUE)
        /\ Return(t, "ok")
        /\ UNCHANGED <<master_keys, key_cache, key_history, data_keys, sessions, now, revoked_tokens,
                       issued, registered, config, stats, facade>>

\* encrypt_patient_data: data_key = get_patient_key(...), or setup_patient(...)
\* when there is none; setup_patient's CryptoError propagates.
EncStart(t) ==
    LET d == threads[t].doctor_id
        p == threads[t].patient_id
        cached == get_patient_key(patient_keys, d, p)
        sp == IF cached = NoKeyId THEN setup_patient(ST, d, p)
              ELSE [mk |-> master_keys, pk |-> patient_keys, km |-> KM,
                    L |-> access_logs, exc |-> "", key_id |-> cached]
    IN  /\ At(t, "encrypt_patient_data", "start")
        /\ patient_keys' = sp.pk
        /\ key_cache' = sp.km.cache
        /\ key_history' = sp.km.history
        /\ data_keys' = sp.km.keys
        /\ access_logs' = sp.L
        /\ IF sp.exc # ""
           THEN Return(t, sp.exc)
           ELSE /\ threads' = [threads EXCEPT ![t].pc = "encrypt", ![t].key = sp.key_id]
                /\ UNCHANGED ret
        /\ UNCHANGED <<master_keys, sessions, now, revoked_tokens, issued, registered, config, stats,
                       facade>>

\* encrypt_patient_data: encrypted = crypto_provider.encrypt(plaintext, data_key,
\* None) with the key the thread holds; a failure is counted, logged and raised as
\* CryptoError.
EncEncrypt(t, plaintext) ==
    LET d == threads[t].doctor_id
        p == threads[t].patient_id
        enc == provider_encrypt(plaintext, data_keys[threads[t].key], NoAAD,
                                NewNonce(issued))
    IN  /\ At(t, "encrypt_patient_data", "encrypt")
        /\ IF enc.exc # ""
           THEN /\ stats' = Bump(stats, "errors")
                /\ access_logs' = log_access(access_logs, d, p, "encrypt_data", FALSE)
                /\ Return(t, "CryptoError")
           ELSE /\ threads' = [threads EXCEPT
                                  ![t].pc = "load", ![t].counter = "encryptions",
                                  ![t].blob = [doctor_id |-> d, patient_id |-> p,
                                               plaintext |-> plaintext,
                                               key_id |-> threads[t].key,
                                               json |-> to_json(enc.blob)]]
                /\ UNCHANGED <<stats, access_logs, ret>>
        /\ UNCHANGED <<master_keys, patient_keys, key_cache, key_history, data_keys,
                       sessions, now, revoked_tokens, issued, registered, config, facade>>

\* decrypt_patient_data(d, p, b.json) up to crypto_provider.decrypt: CryptoError
\* without a cached key; a failure to parse or decrypt is counted, logged and raised
\* as CryptoError.
DecStart(t, b) ==
    LET d == threads[t].doctor_id
        p == threads[t].patient_id
        kid == get_patient_key(patient_keys, d, p)
        parsed == from_json(b.json)
        dec == IF parsed.exc # "" THEN [exc |-> parsed.exc, plaintext |-> ""]
               ELSE provider_decrypt(parsed.blob, data_keys[kid])
    IN  /\ At(t, "decrypt_patient_data", "start")
        /\ IF kid = NoKeyId
           THEN /\ Return(t, "CryptoError")
                /\ UNCHANGED <<stats, access_logs>>
           ELSE IF dec.exc # ""
           THEN /\ stats' = Bump(stats, "errors")
                /\ access_logs' = log_access(access_logs, d, p, "decrypt_data", FALSE)
                /\ Return(t, "CryptoError")
           ELSE /\ threads' = [threads EXCEPT
                                  ![t].pc = "load", ![t].counter = "decryptions",
                                  ![t].key = kid, ![t].blob = b]
                /\ UNCHANGED <<stats, access_logs, ret>>
        /\ UNCHANGED <<master_keys, patient_keys, key_cache, key_history, data_keys,
                       sessions, now, revoked_tokens, issued, registered, config, facade>>

\* create_access_session: session = access_manager.create_session(...)
CreateStart(t, duration) ==
    LET c == create_session(AM, threads[t].doctor_id, threads[t].patient_id, "view",
                            NoPermissions, duration, now)
    IN  /\ At(t, "create_access_session", "start")
        /\ sessions' = c.S
        /\ access_logs' = c.L
        /\ threads' = [threads EXCEPT ![t].pc = "load", ![t].counter = "sessions_created",
                                      ![t].session_id = c.r]
        /\ UNCHANGED <<master_keys, patient_keys, key_cache, key_history, data_keys,
                       now, revoked_tokens, issued, registered, ret, config, stats, facade>>

\* self._stats[counter] += 1, first half: the counter's value is read.
StatsLoad(t) ==
    /\ threads[t].pc = "load"
    /\ threads' = [threads EXCEPT ![t].pc = "store", ![t].seen = stats[threads[t].counter]]
    /\ UNCHANGED <<master_keys, patient_keys, key_cache, key_history, data_keys,
                   sessions, access_logs, now, revoked_tokens, issued, registered, ret, config, stats,
                   facade>>

\* self._stats[counter] += 1, second half: the value read plus one is stored.  Then
\* the rest of the call: encrypt and decrypt log their success, and all return.
StatsStore(t) ==
    LET op == threads[t].op
        d == threads[t].doctor_id
        p == threads[t].patient_id
    IN  /\ threads[t].pc = "store"
        /\ stats' = [stats EXCEPT ![threads[t].counter] = threads[t].seen + 1]
        /\ access_logs' =
               IF op = "encrypt_patient_data"
               THEN log_access(access_logs, d, p, "encrypt_data", TRUE)
               ELSE IF op = "decrypt_patient_data"
               THEN log_access(access_logs, d, p, "decrypt_data", TRUE)
               ELSE access_logs
        /\ issued' = IF op = "encrypt_patient_data"
                     THEN issued \cup {threads[t].blob} ELSE issued
        /\ Return(t, "ok")
        /\ UNCHANGED <<master_keys, patient_keys, key_cache, key_history, data_keys,
                       sessions, now, revoked_tokens, registered, config, facade>>

\* validate_session up to its call of revoke_session: get_session, then False for
\* a session that is missing or inactive, True for one that has not expired.
ValStart(t) ==
    LET sid == threads[t].session_id
        g == get_session(AM, sid, now)
    IN  /\ At(t, "validate_session", "start")
        /\ sessions' = g.S
        /\ IF ~g.r \/ ~g.S[sid].is_active
           THEN Return(t, "false")
           ELSE IF is_expired(g.S[sid], now)
           THEN /\ threads' = [threads EXCEPT ![t].pc = "revoke"]
                /\ UNCHANGED ret
           ELSE Return(t, "true")
        /\ UNCHANGED <<master_keys, patient_keys, key_cache, key_history, data_keys,
                       access_logs, now, revoked_tokens, issued, registered, config, stats, facade>>

\* revoke_session, called directly or by validate_session: False for a session that
\* is missing or no longer active.
RevStart(t) ==
    LET sid == threads[t].session_id
        direct == threads[t].op = "revoke_session"
    IN  /\ \/ At(t, "revoke_session", "start")
           \/ At(t, "validate_session", "revoke")
        /\ IF sid \notin DOMAIN sessions \/ ~sessions[sid].is_active
           THEN /\ threads' = [threads EXCEPT ![t].pc = "done", ![t].revoked = "false",
                                              ![t].result = "false"]
                /\ ret' = Ret(threads[t].op, 0, 0, sid, "", "false", "", NoBlob)
           ELSE /\ threads' = [threads EXCEPT ![t].pc = "deactivate"]
                /\ UNCHANGED ret
        /\ UNCHANGED <<master_keys, patient_keys, key_cache, key_history, data_keys,
                       sessions, access_logs, now, revoked_tokens, issued, registered, config, stats,
                       facade>>

\* revoke_session: session.is_active = False, log 'revoke_session', return True
\* (validate_session then returns False).
RevDeactivate(t) ==
    LET sid == threads[t].session_id
        result == IF threads[t].op = "revoke_session" THEN "true" ELSE "false"
    IN  /\ threads[t].pc = "deactivate"
        /\ sessions' = [sessions EXCEPT ![sid].is_active = FALSE]
        /\ access_logs' = log_access(access_logs, sessions[sid].doctor_id,
                                     sessions[sid].patient_id, "revoke_session", TRUE)
        /\ threads' = [threads EXCEPT ![t].pc = "done", ![t].revoked = "true",
                                      ![t].result = result]
        /\ ret' = Ret(threads[t].op, 0, 0, sid, "", result, "", NoBlob)
        /\ UNCHANGED <<master_keys, patient_keys, key_cache, key_history, data_keys,
                       now, revoked_tokens, issued, registered, config, stats, facade>>

\* ------------------------------------------------------------ AuthManager
\* The tokens followed by name: two that create_token issued, with the time their
\* 'exp' claim names, one that is not signed with the manager's key, and the empty
\* string.  Callers revoke other tokens too; of those the model keeps the number.
TokenExp == [t1 |-> 1, t2 |-> 3]
Tokens == {"t1", "t2", "forged", ""}

\* AuthManager.__init__: self.revoked_tokens = set()
NoTokens == [named |-> {}, others |-> 0]

\* jwt.decode(token, secret_key, ...) at time t: InvalidTokenError for a token that
\* is not a signed token of this issuer, ExpiredSignatureError at or after the
\* token's exp.
jwt_decode(token, t) ==
    IF token \notin DOMAIN TokenExp THEN "InvalidTokenError"
    ELSE IF TokenExp[token] <= t THEN "ExpiredSignatureError"
    ELSE "ok"

\* verify_token
verify_token(rt, token, t) ==
    IF token = "" THEN "TokenInvalidError"
    ELSE IF token \in rt.named THEN "TokenInvalidError"
    ELSE IF jwt_decode(token, t) = "ExpiredSignatureError" THEN "TokenExpiredError"
    ELSE IF jwt_decode(token, t) = "InvalidTokenError" THEN "TokenInvalidError"
    ELSE "ok"

\* revoke_token: what the revoked set can be after adding the tokens `named` (of
\* Tokens) and `fresh` tokens outside Tokens.  Above RevokedLimit entries the set
\* becomes set(list(self.revoked_tokens)[-500:]): the last RevokedKept entries in
\* the set's iteration order, which is the order of the tokens' hashes: any
\* RevokedKept of the entries.
revoke_token_outcomes(rt, named, fresh) ==
    LET all == rt.named \cup named
        others == rt.others + fresh
    IN  IF Cardinality(all) + others > RevokedLimit
        THEN {[named |-> kept, others |-> RevokedKept - Cardinality(kept)] :
                 kept \in {k \in SUBSET all :
                               /\ Cardinality(k) <= RevokedKept
                               /\ RevokedKept - Cardinality(k) <= others}}
        ELSE {[named |-> all, others |-> others]}

\* revoke_token(token), token one of Tokens.
RevokeToken(token) ==
    /\ revoked_tokens' \in revoke_token_outcomes(revoked_tokens, {token}, 0)
    /\ ret' = Ret("revoke_token", 0, 0, 0, token, "ok", "", NoBlob)
    /\ UNCHANGED <<master_keys, patient_keys, key_cache, key_history, data_keys,
                   sessions, access_logs, now, issued, registered, config, stats,
                   facade, threads>>

\* revoke_token(token), token outside Tokens and not revoked before.
RevokeOtherToken ==
    /\ revoked_tokens' \in revoke_token_outcomes(revoked_tokens, {}, 1)
    /\ ret' = Ret("revoke_token", 0, 0, 0, "other", "ok", "", NoBlob)
    /\ UNCHANGED <<master_keys, patient_keys, key_cache, key_history, data_keys,
                   sessions, access_logs, now, issued, registered, config, stats,
                   facade, threads>>

\* verify_token(token)
VerifyToken(token) ==
    /\ ret' = Ret("verify_token", 0, 0, 0, token,
                  verify_token(revoked_tokens, token, now), "", NoBlob)
    /\ UNCHANGED <<master_keys, patient_keys, key_cache, key_history, data_keys,
                   sessions, access_logs, now, issued, registered, config, stats,
                   facade, threads, revoked_tokens>>

\* MedicalCryptoFacade.__init__
NewFacade ==
    [doctors |-> <<>>, patients |-> <<>>, medical_records |-> <<>>, next_record_id |-> 1,
     sessions_cache |-> <<>>]

\* The state after construction, the components configured as cfg says.
Constructed(cfg) ==
    /\ master_keys = EmptyDict
    /\ patient_keys = EmptyDict
    /\ key_cache = EmptyDict
    /\ key_history = EmptyDict
    /\ data_keys = <<>>
    /\ sessions = <<>>
    /\ access_logs = <<>>
    /\ now = 0
    /\ issued = {}
    /\ registered = EmptyDict
    /\ ret = Ret("init", 0, 0, 0, "", "ok", "", NoBlob)
    /\ config = cfg
    /\ stats = [encryptions |-> 0, decryptions |-> 0, sessions_created |-> 0,
                errors |-> 0]
    /\ facade = NewFacade
    /\ threads = [t \in Threads |-> Idle]
    /\ revoked_tokens = NoTokens

\* MedicalSecuritySystem.__init__ with the default SecurityConfig
Init == Constructed(DefaultConfig)

SessionIds == DOMAIN sessions \cup {UnknownSession}

\* ------------------------------------------------------------------------
\* Spec: two doctors use the doctor, patient and data path of the
\* SecuritySystem and open and revoke access sessions; the clock stands still.
Keys_SetupDoctor ==
    \E d \in Doctors, pw \in Passwords : SetupDoctor(d, pw) /\ LogWithin(MaxLogLen)
Keys_LoginDoctor ==
    \E d \in Doctors, pw \in Passwords : LoginDoctor(d, pw) /\ LogWithin(MaxLogLen)
Keys_LogoutDoctor ==
    \E d \in Doctors : LogoutDoctor(d) /\ LogWithin(MaxLogLen)
Keys_SetupPatient ==
    \E d \in Doctors, p \in Patients : SetupPatient(d, p) /\ LogWithin(MaxLogLen)
Keys_RotatePatientKey ==
    \E d \in Doctors, p \in Patients : RotatePatientKey(d, p) /\ LogWithin(MaxLogLen)
Keys_EncryptPatientData ==
    \E d \in Doctors, p \in Patients, pt \in Plaintexts :
        EncryptPatientData(d, p, pt) /\ LogWithin(MaxLogLen)
Keys_DecryptPatientData ==
    \E d \in Doctors, p \in Patients, b \in issued :
        DecryptPatientData(d, p, b) /\ LogWithin(MaxLogLen)

Keys_CreateAccessSession ==
    \E d \in Doctors, p \in Patients :
        CreateAccessSession(d, p, MaxDuration) /\ LogWithin(MaxLogLen)
Keys_RevokeSession ==
    \E sid \in SessionIds : RevokeSession(sid) /\ LogWithin(MaxLogLen)

Next ==
    \/ Keys_SetupDoctor
    \/ Keys_LoginDoctor
    \/ Keys_LogoutDoctor
    \/ Keys_SetupPatient
    \/ Keys_RotatePatientKey
    \/ Keys_EncryptPatientData
    \/ Keys_DecryptPatientData
    \/ ClearCache
    \/ Keys_CreateAccessSession
    \/ Keys_RevokeSession

Spec == Init /\ [][Next]_vars

\* ------------------------------------------------------------------------
\* SpecOneDoctor: doctor 1 alone, with one password and non-empty plaintexts,
\* through longer runs of the same calls and of clear_cache.
TheDoctor == CHOOSE d \in Doctors : \A e \in Doctors : d <= e
ThePassword == "pw0"

One_SetupDoctor == SetupDoctor(TheDoctor, ThePassword) /\ LogWithin(MaxLogOne)
One_LoginDoctor == LoginDoctor(TheDoctor, ThePassword) /\ LogWithin(MaxLogOne)
One_LogoutDoctor == LogoutDoctor(TheDoctor) /\ LogWithin(MaxLogOne)
One_SetupPatient ==
    \E p \in Patients : SetupPatient(TheDoctor, p) /\ LogWithin(MaxLogOne)
One_RotatePatientKey ==
    \E p \in Patients : RotatePatientKey(TheDoctor, p) /\ LogWithin(MaxLogOne)
One_EncryptPatientData ==
    \E p \in Patients, pt \in Plaintexts \ {""} :
        EncryptPatientData(TheDoctor, p, pt) /\ LogWithin(MaxLogOne)
One_DecryptPatientData ==
    \E p \in Patients, b \in issued :
        DecryptPatientData(TheDoctor, p, b) /\ LogWithin(MaxLogOne)

NextOneDoctor ==
    \/ One_SetupDoctor
    \/ One_LoginDoctor
    \/ One_LogoutDoctor
    \/ One_SetupPatient
    \/ One_RotatePatientKey
    \/ One_EncryptPatientData
    \/ One_DecryptPatientData
    \/ ClearCache

SpecOneDoctor == Init /\ [][NextOneDoctor]_vars

\* ------------------------------------------------------------------------
\* SpecSessions: the access sessions of two doctors, who log in and out, while
\* the clock advances.
Sess_LoginDoctor ==
    \E d \in Doctors : LoginDoctor(d, ThePassword) /\ LogWithin(MaxLogSess)
Sess_LogoutDoctor ==
    \E d \in Doctors : LogoutDoctor(d) /\ LogWithin(MaxLogSess)
Sess_CreateAccessSession ==
    \E d \in Doctors, p \in Patients, dur \in 1..MaxDuration :
        CreateAccessSession(d, p, dur) /\ LogWithin(MaxLogSess)
Sess_ValidateAccessSession ==
    \E sid \in SessionIds : ValidateAccessSession(sid) /\ LogWithin(MaxLogSess)
Sess_GetSession ==
    \E sid \in SessionIds : GetSession(sid)
Sess_RevokeSession ==
    \E sid \in SessionIds : RevokeSession(sid) /\ LogWithin(MaxLogSess)
Sess_RevokeAllSessions ==
    \E d \in Doctors, p \in Patients \cup {0} :
        RevokeAllSessions(d, p) /\ LogWithin(MaxLogSess)
Sess_GetActiveSessions ==
    \E d \in Doctors \cup {0}, p \in Patients \cup {0} :
        GetActiveSessions(d, p) /\ LogWithin(MaxLogSess)
Sess_CleanupExpiredSessions == CleanupExpiredSessions /\ LogWithin(MaxLogSess)

NextSessions ==
    \/ Sess_LoginDoctor
    \/ Sess_LogoutDoctor
    \/ Sess_CreateAccessSession
    \/ Sess_ValidateAccessSession
    \/ Sess_GetSession
    \/ Sess_RevokeSession
    \/ Sess_RevokeAllSessions
    \/ Sess_GetActiveSessions
    \/ Sess_CleanupExpiredSessions
    \/ Tick

SpecSessions == Init /\ [][NextSessions]_vars

\* ------------------------------------------------------------------------
\* SpecTwoPatients: doctor 1, logged in, keeps the data of two patients.
Two_SetupDoctor == SetupDoctor(TheDoctor, ThePassword) /\ LogWithin(MaxLogTwo)
Two_SetupPatient ==
    \E p \in TwoPatients : SetupPatient(TheDoctor, p) /\ LogWithin(MaxLogTwo)
Two_RotatePatientKey ==
    \E p \in TwoPatients : RotatePatientKey(TheDoctor, p) /\ LogWithin(MaxLogTwo)
Two_EncryptPatientData ==
    \E p \in TwoPatients, pt \in Plaintexts \ {""} :
        EncryptPatientData(TheDoctor, p, pt) /\ LogWithin(MaxLogTwo)
Two_DecryptPatientData ==
    \E p \in TwoPatients, b \in issued :
        DecryptPatientData(TheDoctor, p, b) /\ LogWithin(MaxLogTwo)

NextTwoPatients ==
    \/ Two_SetupDoctor
    \/ Two_SetupPatient
    \/ Two_RotatePatientKey
    \/ Two_EncryptPatientData
    \/ Two_DecryptPatientData

SpecTwoPatients == Init /\ [][NextTwoPatients]_vars

\* ------------------------------------------------------------------------
\* SpecRevokeAll: sessions of two doctors on two patients, revoked one by one
\* and in bulk.
All_CreateAccessSession ==
    \E d \in Doctors, p \in TwoPatients :
        CreateAccessSession(d, p, MaxDuration) /\ LogWithin(MaxLogAll)
All_RevokeSession ==
    \E sid \in SessionIds : RevokeSession(sid) /\ LogWithin(MaxLogAll)
All_RevokeAllSessions ==
    \E d \in Doctors, p \in TwoPatients \cup {0} :
        RevokeAllSessions(d, p) /\ LogWithin(MaxLogAll)

NextRevokeAll ==
    \/ All_CreateAccessSession
    \/ All_RevokeSession
    \/ All_RevokeAllSessions

SpecRevokeAll == Init /\ [][NextRevokeAll]_vars

\* ------------------------------------------------------------------------
\* SpecProvider: the AESCryptoProvider alone.  Callers encrypt under keys that
\* share or differ in key id and key bytes, with or without AAD, and decrypt the
\* blobs they hold, as stored or with one field changed.  Here `issued` holds,
\* for each blob, the call that made it.
ProviderKeys ==
    [key_id : {1, 2}, key_bytes : {1, 2}, patient_id : Patients, last_rotated : {-1}]
AADs == {NoAAD, Bytes(""), Bytes("ctx")}

\* Bytes that AES-GCM produced under no key.
Garbage == [key |-> 0, nonce |-> 0, aad |-> NoAAD, pt |-> ""]

\* The blobs that differ from made.blob in one of ciphertext, nonce, additional_data.
Tampered(made) ==
    LET b == made.blob
        others == {m.blob : m \in issued}
    IN  {[field |-> "ciphertext", blob |-> [b EXCEPT !.ciphertext = c]] :
            c \in ({o.ciphertext : o \in others} \cup {Garbage}) \ {b.ciphertext}}
        \cup
        {[field |-> "nonce", blob |-> [b EXCEPT !.nonce = n]] :
            n \in ({o.nonce : o \in others} \cup {0}) \ {b.nonce}}
        \cup
        {[field |-> "additional_data", blob |-> [b EXCEPT !.additional_data = a]] :
            a \in ({o.additional_data : o \in others} \cup (AADs \ {NoAAD}))
                    \ {b.additional_data}}

ProviderEncrypt(plaintext, key, additional_data) ==
    LET enc == provider_encrypt(plaintext, key, additional_data, NewNonce(issued))
        call == [plaintext |-> plaintext, key |-> key, aad |-> additional_data]
    IN  /\ Cardinality(issued) < MaxBlobs
        /\ IF enc.exc # ""
           THEN /\ ret' = Ret("provider_encrypt", 0, 0, 0, call, enc.exc, "", enc.blob)
                /\ UNCHANGED issued
           ELSE /\ ret' = Ret("provider_encrypt", 0, 0, 0, call, "ok", "", enc.blob)
                /\ issued' = issued \cup {[plaintext |-> plaintext, key |-> key,
                                             aad |-> additional_data,
                                             blob |-> enc.blob]}
        /\ UNCHANGED <<master_keys, patient_keys, key_cache, key_history, data_keys,
                       sessions, access_logs, now, revoked_tokens, threads, registered,
                       config, stats, facade>>

\* decrypt(blob, key) of the blob that `made` records, changed in `field`
\* ("none": as stored).
ProviderDecrypt(made, field, blob, key) ==
    LET dec == provider_decrypt(blob, key)
    IN  /\ ret' = Ret("provider_decrypt", 0, 0, 0,
                      [made |-> made, field |-> field, key |-> key],
                      IF dec.exc # "" THEN dec.exc ELSE "ok", dec.plaintext, blob)
        /\ UNCHANGED <<master_keys, patient_keys, key_cache, key_history, data_keys,
                       sessions, access_logs, now, revoked_tokens, threads, issued, registered,
                       config, stats, facade>>

Prov_Encrypt ==
    \E pt \in Plaintexts, k \in ProviderKeys, a \in AADs : ProviderEncrypt(pt, k, a)
Prov_Decrypt ==
    \E m \in issued, k \in ProviderKeys : ProviderDecrypt(m, "none", m.blob, k)
Prov_DecryptTampered ==
    \E m \in issued : \E t \in Tampered(m) : ProviderDecrypt(m, t.field, t.blob, m.key)

NextProvider ==
    \/ Prov_Encrypt
    \/ Prov_Decrypt
    \/ Prov_DecryptTampered

SpecProvider == Init /\ [][NextProvider]_vars

\* ------------------------------------------------------------------------
\* SpecLog: a MemoryAccessManager built with a small max_log_entries, whose
\* callers log events.  ret.out holds every event passed to log_access so far.
Logged == IF ret.op = "log_access" THEN ret.out ELSE <<>>

LogAccess(d, p, action, success) ==
    LET entry == [doctor_id |-> d, patient_id |-> p, action |-> action,
                  success |-> success]
    IN  /\ Len(Logged) < MaxLogged
        /\ access_logs' = log_access(access_logs, d, p, action, success)
        /\ ret' = Ret("log_access", d, p, 0, entry, "ok", Append(Logged, entry), NoBlob)
        /\ UNCHANGED <<master_keys, patient_keys, key_cache, key_history, data_keys,
                       sessions, now, revoked_tokens, threads, issued, registered, config, stats, facade>>

Log_LogAccess ==
    \E d \in Doctors, p \in Patients, success \in BOOLEAN :
        LogAccess(d, p, "view", success)

InitLog ==
    \E n \in 1..MaxCapacity :
        Constructed(Configured("direct", DefaultIterations, DefaultKeyLength, n))

NextLog == Log_LogAccess

SpecLog == InitLog /\ [][NextLog]_vars

\* ------------------------------------------------------------------------
\* SpecPermissions: callers of MemoryAccessManager.create_session choose the
\* access type and leave the permissions out or supply a map.
AccessTypes == {"view", "edit", "emergency"}
SuppliedMaps ==
    {EmptyDict,
     [n \in {"view_patient_info"} |-> TRUE],
     [n \in {"edit_records", "export_data", "custom_permission"} |->
         n # "edit_records"],
     [n \in {"read"} |-> FALSE]}

\* access_manager.create_session(d, p, access_type, permissions, duration)
AM_CreateSession(d, p, access_type, permissions, duration) ==
    LET c == create_session(AM, d, p, access_type, permissions, duration, now)
    IN  /\ sessions' = c.S
        /\ access_logs' = c.L
        /\ ret' = Ret("create_session", d, p, c.r,
                      [access_type |-> access_type, permissions |-> permissions],
                      "ok", "", NoBlob)
        /\ UNCHANGED <<master_keys, patient_keys, key_cache, key_history, data_keys,
                       now, revoked_tokens, threads, issued, registered, config, stats, facade>>

Perm_CreateSession ==
    \E d \in Doctors, p \in Patients, type \in AccessTypes,
       perms \in {NoPermissions} \cup {Supplied(m) : m \in SuppliedMaps} :
        AM_CreateSession(d, p, type, perms, MaxDuration) /\ LogWithin(MaxLogPerm)

NextPermissions == Perm_CreateSession

SpecPermissions == Init /\ [][NextPermissions]_vars

\* ------------------------------------------------------------------------
\* SpecJson: EncryptedData objects are written to JSON and read back, whole or with
\* one field of the JSON object taken out; doctor 1 encrypts and hands
\* decrypt_patient_data what encrypt_patient_data returned, whole or with one field
\* taken out.
JsonFields == {"ciphertext", "nonce", "additional_data", "version", "algorithm", "key_id"}

\* EncryptedData objects, with and without a key_id, of both versions.
EncryptedDatas ==
    [ciphertext : {Garbage, AESGCM_encrypt(1, 1, "AD", Bytes("ctx"))},
     nonce : {0, 1}, additional_data : {Bytes(""), Bytes("ctx")},
     version : {"1.0", "2.0"}, algorithm : {"AES-256-GCM"}, key_id : {NoKeyId, 1}]

\* EncryptedData.from_json(blob.to_json())
JsonRoundTrip(blob) ==
    LET back == from_json(to_json(blob))
    IN  /\ ret' = Ret("json_round_trip", 0, 0, 0, blob,
                      IF back.exc # "" THEN back.exc ELSE "ok", back.blob, NoBlob)
        /\ UNCHANGED <<master_keys, patient_keys, key_cache, key_history, data_keys,
                       sessions, access_logs, now, revoked_tokens, threads, issued, registered, config, stats,
                       facade>>

\* EncryptedData.from_json of blob.to_json() without the field `missing`
FromJsonWithout(blob, missing) ==
    LET back == from_json(Del(to_json(blob), missing))
    IN  /\ ret' = Ret("from_json", 0, 0, 0, [blob |-> blob, missing |-> missing],
                      IF back.exc # "" THEN back.exc ELSE "ok", back.blob, NoBlob)
        /\ UNCHANGED <<master_keys, patient_keys, key_cache, key_history, data_keys,
                       sessions, access_logs, now, revoked_tokens, threads, issued, registered, config, stats,
                       facade>>

Json_RoundTrip == \E blob \in EncryptedDatas : JsonRoundTrip(blob)
Json_FromJsonWithout ==
    \E blob \in EncryptedDatas, missing \in JsonFields : FromJsonWithout(blob, missing)
Json_SetupDoctor == SetupDoctor(TheDoctor, ThePassword) /\ LogWithin(MaxLogJson)
Json_EncryptPatientData ==
    \E p \in Patients, pt \in Plaintexts \ {""} :
        EncryptPatientData(TheDoctor, p, pt) /\ LogWithin(MaxLogJson)
Json_DecryptPatientData ==
    \E p \in Patients, b \in issued :
        DecryptPatientData(TheDoctor, p, b) /\ LogWithin(MaxLogJson)
Json_DecryptWithout ==
    \E p \in Patients, b \in issued, missing \in JsonFields :
        /\ DecryptPatientData(TheDoctor, p, [b EXCEPT !.json = Del(@, missing)])
        /\ LogWithin(MaxLogJson)

NextJson ==
    \/ Json_RoundTrip
    \/ Json_FromJsonWithout
    \/ Json_SetupDoctor
    \/ Json_EncryptPatientData
    \/ Json_DecryptPatientData
    \/ Json_DecryptWithout

SpecJson == Init /\ [][NextJson]_vars

\* ------------------------------------------------------------------------
\* SpecWrap: the DefaultKeyManager wraps data keys under master keys derived from
\* two passwords and unwraps what it is handed: the wrapped keys as stored, with a
\* byte changed or cut short, or bytes sealed under the master key whose plaintext
\* is no well-formed key.  Here `issued` holds, for each wrapped key, the call that
\* made it.
WrapPasswords == {"pw0", "pw1"}

\* DataKeys: 32 key bytes, 32 salt bytes, the key id "k" or "k\u00e9".
WrapKeys ==
    [key_id : {<<107>>, <<107, 233>>}, key_bytes : {Rep(1, 32)},
     salt : {Rep(2, 32), Rep(3, 32)}]

TheMasterKey(pw) == MasterKey(derive_master_key(pw, DoctorSalt))

\* What a caller may hand to decrypt_data_key in place of made.wrapped.
Mangled(made) ==
    LET w == made.wrapped
        m == TheMasterKey(made.password)
        nonce == PySlice(w, 0, 12)
        sealed(pt) == nonce \o AESGCM_seal(m.key_bytes, nonce, pt, NoAAD)
    IN  {[kind |-> "nonce changed", bytes |-> [w EXCEPT ![1] = (@ + 1) % 256]],
         [kind |-> "cut short", bytes |-> PySlice(w, 0, 12)],
         [kind |-> "cut in the nonce", bytes |-> PySlice(w, 0, 5)],
         [kind |-> "short plaintext", bytes |-> sealed(Rep(1, 32) \o Rep(2, 8))],
         [kind |-> "empty plaintext", bytes |-> sealed(<<>>)],
         [kind |-> "key id not UTF-8",
          bytes |-> sealed(made.key.key_bytes \o made.key.salt \o <<107, 255>>)],
         [kind |-> "key id cut in a character",
          bytes |-> sealed(made.key.key_bytes \o made.key.salt \o <<195>>)]}

EncryptDataKey(data_key, password) ==
    LET nonce == Rep(NewNonce(issued), 12)
        enc == encrypt_data_key(data_key, TheMasterKey(password), nonce)
        call == [key |-> data_key, password |-> password]
    IN  /\ Cardinality(issued) < MaxWrapped
        /\ IF enc.exc # ""
           THEN /\ ret' = Ret("encrypt_data_key", 0, 0, 0, call, enc.exc, "", NoBlob)
                /\ UNCHANGED issued
           ELSE /\ ret' = Ret("encrypt_data_key", 0, 0, 0, call, "ok", enc.wrapped,
                              NoBlob)
                /\ issued' = issued \cup {[key |-> data_key, password |-> password,
                                             wrapped |-> enc.wrapped]}
        /\ UNCHANGED <<master_keys, patient_keys, key_cache, key_history, data_keys,
                       sessions, access_logs, now, revoked_tokens, threads, registered, config, stats, facade>>

\* decrypt_data_key(bytes, master key of `password`); bytes is made.wrapped
\* (kind "stored") or one of Mangled(made).
DecryptDataKey(made, kind, bytes, password) ==
    LET dec == decrypt_data_key(bytes, TheMasterKey(password))
    IN  /\ ret' = Ret("decrypt_data_key", 0, 0, 0,
                      [made |-> made, kind |-> kind, password |-> password],
                      IF dec.exc # "" THEN dec.exc ELSE "ok", dec.key, NoBlob)
        /\ UNCHANGED <<master_keys, patient_keys, key_cache, key_history, data_keys,
                       sessions, access_logs, now, revoked_tokens, threads, issued, registered, config, stats,
                       facade>>

Wrap_EncryptDataKey ==
    \E k \in WrapKeys, pw \in WrapPasswords : EncryptDataKey(k, pw)
Wrap_DecryptDataKey ==
    \E made \in issued, pw \in WrapPasswords :
        DecryptDataKey(made, "stored", made.wrapped, pw)
Wrap_DecryptMangled ==
    \E made \in issued : \E x \in Mangled(made) :
        DecryptDataKey(made, x.kind, x.bytes, made.password)

NextWrap ==
    \/ Wrap_EncryptDataKey
    \/ Wrap_DecryptDataKey
    \/ Wrap_DecryptMangled

SpecWrap == Init /\ [][NextWrap]_vars

\* ------------------------------------------------------------------------
\* SpecKdf: the key manager as configured, with iteration counts and key lengths
\* below, at and above the floors, handed over directly or through SecurityConfig.
\* derive_master_key is called on the manager; a MedicalSecuritySystem (which
\* exists only around a SecurityConfig) also sets doctors up and logs them in.
KdfIterations == {1000, MinIterations - 1, MinIterations, DefaultIterations,
                 DefaultIterations + 1}
KdfLengths == {16, DefaultKeyLength, 64}
KdfSalts == {DoctorSalt, "salt2"}

DeriveMasterKey(password, salt) ==
    LET mk == derive_master_key(password, salt)
    IN  /\ ret' = IF mk.exc # ""
                  THEN Ret("derive_master_key", 0, 0, 0, password, mk.exc, "", NoBlob)
                  ELSE Ret("derive_master_key", 0, 0, 0, password, "ok",
                           [iterations |-> mk.iterations,
                            ran |-> mk.key_bytes.iterations,
                            length |-> mk.key_bytes.length], NoBlob)
        /\ UNCHANGED <<master_keys, patient_keys, key_cache, key_history, data_keys,
                       sessions, access_logs, now, revoked_tokens, threads, issued, registered, config, stats,
                       facade>>

Kdf_DeriveMasterKey ==
    \E pw \in Passwords, salt \in KdfSalts : DeriveMasterKey(pw, salt)
Kdf_SetupDoctor ==
    /\ config.via = "SecurityConfig"
    /\ \E d \in Doctors, pw \in Passwords : SetupDoctor(d, pw)
    /\ LogWithin(MaxLogKdf)
Kdf_LoginDoctor ==
    /\ config.via = "SecurityConfig"
    /\ \E d \in Doctors, pw \in Passwords : LoginDoctor(d, pw)
    /\ LogWithin(MaxLogKdf)

InitKdf ==
    \E via \in {"direct", "SecurityConfig"}, n \in KdfIterations, len \in KdfLengths :
        Constructed(Configured(via, n, len, max_log_entries))

NextKdf ==
    \/ Kdf_DeriveMasterKey
    \/ Kdf_SetupDoctor
    \/ Kdf_LoginDoctor

SpecKdf == InitKdf /\ [][NextKdf]_vars

\* ------------------------------------------------------------------------
\* SpecStats: one doctor and one patient, every operation of the security system
\* that touches the counters or the caches they could be confused with.
Stats_SetupDoctor ==
    \E pw \in Passwords : SetupDoctor(TheDoctor, pw) /\ LogWithin(MaxLogStats)
Stats_LoginDoctor ==
    \E pw \in Passwords : LoginDoctor(TheDoctor, pw) /\ LogWithin(MaxLogStats)
Stats_LogoutDoctor == LogoutDoctor(TheDoctor) /\ LogWithin(MaxLogStats)
Stats_SetupPatient ==
    \E p \in Patients : SetupPatient(TheDoctor, p) /\ LogWithin(MaxLogStats)
Stats_RotatePatientKey ==
    \E p \in Patients : RotatePatientKey(TheDoctor, p) /\ LogWithin(MaxLogStats)
Stats_EncryptPatientData ==
    \E p \in Patients :
        EncryptPatientData(TheDoctor, p, "AD") /\ LogWithin(MaxLogStats)
Stats_DecryptPatientData ==
    \E p \in Patients, b \in issued :
        DecryptPatientData(TheDoctor, p, b) /\ LogWithin(MaxLogStats)
Stats_CreateAccessSession ==
    \E p \in Patients :
        CreateAccessSession(TheDoctor, p, MaxDuration) /\ LogWithin(MaxLogStats)

NextStats ==
    \/ Stats_SetupDoctor
    \/ Stats_LoginDoctor
    \/ Stats_LogoutDoctor
    \/ Stats_SetupPatient
    \/ Stats_RotatePatientKey
    \/ Stats_EncryptPatientData
    \/ Stats_DecryptPatientData
    \/ Stats_CreateAccessSession
    \/ ClearCache

SpecStats == Init /\ [][NextStats]_vars

\* ------------------------------------------------------------------------
\* MedicalCryptoFacade.  facade = [doctors, patients, medical_records,
\* next_record_id]; the security system beneath it is the state above.  Every
\* _log_operation is a log_access on the same audit log.  `issued` holds the
\* EncryptionResults that add_medical_record returned.
MaxKey(dict) == IF DOMAIN dict = {} THEN 0
                ELSE CHOOSE k \in DOMAIN dict : \A j \in DOMAIN dict : j <= k

\* secrets.token_bytes(32): a salt no earlier call has drawn.  Every registration
\* adds to the log, so its length names the draw.
NewSalt == <<"salt", Len(access_logs)>>

NotFoundPatient(patient_id) ==
    [error_message |-> "patient not found or no access", id |-> patient_id]
NotFoundRecord(record_id) ==
    [error_message |-> "record not found or no access", id |-> record_id]

\* json.dumps(additional_data): the text of the record's doctor and patient ids.
Digits == <<"1", "2", "3", "4", "5", "6", "7", "8", "9">>
json_dumps(doctor_id, patient_id) ==
    "{doctor_id: " \o Digits[doctor_id] \o ", patient_id: " \o Digits[patient_id]
        \o "}"

\* get_patient that hands out every known patient.
get_patient_any_doctor(fac, doctor_id, patient_id, t) ==
    IF patient_id \notin DOMAIN fac.patients
    THEN [fac |-> fac, found |-> FALSE]
    ELSE [fac |-> [fac EXCEPT !.patients[patient_id].last_accessed = t],
          found |-> TRUE]

\* get_patient(doctor_id, patient_id) at time t: None for an unknown patient or
\* another doctor's; else last_accessed is updated.
get_patient(fac, doctor_id, patient_id, t) ==
    IF patient_id \notin DOMAIN fac.patients
    THEN [fac |-> fac, found |-> FALSE]
    ELSE IF fac.patients[patient_id].doctor_id # doctor_id
    THEN [fac |-> fac, found |-> FALSE]
    ELSE [fac |-> [fac EXCEPT !.patients[patient_id].last_accessed = t],
          found |-> TRUE]

\* get_medical_record that hands out every stored record.
get_medical_record_unchecked(fac, doctor_id, record_id, t) ==
    IF record_id \notin DOMAIN fac.medical_records
    THEN [fac |-> fac, found |-> FALSE]
    ELSE [fac |-> fac, found |-> TRUE]

\* get_medical_record(doctor_id, record_id): None for an unknown record, or when
\* get_patient refuses the record's patient.
get_medical_record(fac, doctor_id, record_id, t) ==
    IF record_id \notin DOMAIN fac.medical_records
    THEN [fac |-> fac, found |-> FALSE]
    ELSE LET gp == get_patient(fac, doctor_id,
                               fac.medical_records[record_id].patient_id, t)
         IN  [fac |-> gp.fac, found |-> gp.found]

\* What a read of record_id by doctor_id meets: no such record, a record of
\* another doctor's patient, or a record of the doctor's own patient.
ReadCase(doctor_id, record_id) ==
    IF record_id \notin DOMAIN facade.medical_records THEN "missing"
    ELSE IF facade.patients[facade.medical_records[record_id].patient_id].doctor_id
            # doctor_id
    THEN "foreign" ELSE "own"

\* _cleanup_doctor_sessions: the cache without the doctor's sessions.
cleanup_doctor_sessions(cache, doctor_id) ==
    [sid \in {i \in DOMAIN cache : cache[i].doctor_id # doctor_id} |-> cache[sid]]

\* del dict[k]: KeyError when k is not a key.
DelItem(dict, k) ==
    IF k \in DOMAIN dict THEN [exc |-> "", dict |-> Del(dict, k)]
    ELSE [exc |-> "KeyError", dict |-> dict]

\* Facade.validate_session(session_id) on the facade fac and the access manager
\* am: an invalid session is dropped from the cache.
facade_validate_session(fac, am, session_id, t) ==
    LET v == validate_session(am, session_id, t)
    IN  [fac |-> IF ~v.r /\ session_id \in DOMAIN fac.sessions_cache
                 THEN [fac EXCEPT !.sessions_cache = Del(@, session_id)] ELSE fac,
         S |-> v.S, L |-> v.L, r |-> v.r]

\* Facade.get_session(session_id): the cached entry when validate_session accepts
\* it; else `del self._sessions_cache[session_id]` and None.
facade_get_session(fac, am, session_id, t) ==
    IF session_id \notin DOMAIN fac.sessions_cache
    THEN [fac |-> fac, S |-> am.S, L |-> am.L, exc |-> "", found |-> FALSE]
    ELSE LET v == facade_validate_session(fac, am, session_id, t)
         IN  IF v.r
             THEN [fac |-> v.fac, S |-> v.S, L |-> v.L, exc |-> "", found |-> TRUE]
             ELSE LET d == DelItem(v.fac.sessions_cache, session_id)
                  IN  [fac |-> [v.fac EXCEPT !.sessions_cache = d.dict],
                       S |-> v.S, L |-> v.L, exc |-> d.exc, found |-> FALSE]

\* register_doctor(username, password, full_name)
RegisterDoctor(username, password) ==
    IF Len(username) < 3 \/ Len(password) < 8
    THEN /\ ret' = Ret("register_doctor", 0, 0, 0, username, "ValueError", "", NoBlob)
         /\ UNCHANGED <<master_keys, patient_keys, key_cache, key_history, data_keys,
                        sessions, access_logs, now, revoked_tokens, threads, issued, registered, config, stats,
                        facade>>
    ELSE LET doctor_id == MaxKey(facade.doctors) + 1
             doctor_salt == NewSalt
             mk == derive_master_key(password, doctor_salt)
         IN  /\ IF mk.exc = ""
                THEN /\ master_keys' = Put(master_keys, doctor_id, MasterKey(mk))
                     /\ registered' = Put(registered, doctor_id, password)
                     /\ facade' = [facade EXCEPT !.doctors =
                                       Put(@, doctor_id,
                                           [username |-> username, salt |-> doctor_salt,
                                            is_authenticated |-> FALSE])]
                     /\ access_logs' =
                           log_access(log_access(access_logs, doctor_id, 0,
                                                 "setup_doctor", TRUE),
                                      doctor_id, 0, "register_doctor", TRUE)
                     /\ ret' = Ret("register_doctor", doctor_id, 0, 0, username, "ok",
                                   "", NoBlob)
                     /\ UNCHANGED stats
                ELSE /\ stats' = Bump(stats, "errors")
                     /\ access_logs' =
                           log_access(log_access(access_logs, doctor_id, 0,
                                                 "setup_doctor", FALSE),
                                      0, 0, "register_doctor", FALSE)
                     /\ ret' = Ret("register_doctor", 0, 0, 0, username, "CryptoError",
                                   "", NoBlob)
                     /\ UNCHANGED <<master_keys, registered, facade>>
             /\ UNCHANGED <<patient_keys, key_cache, key_history, data_keys, sessions,
                            now, revoked_tokens, threads, issued, config>>

\* login_doctor(username, password): None, unlogged, for an unknown username; else
\* the security system's login_doctor with the doctor's salt.
FacadeLoginDoctor(username, password) ==
    LET known == {d \in DOMAIN facade.doctors : facade.doctors[d].username = username}
    IN  IF known = {}
        THEN /\ ret' = Ret("facade_login_doctor", 0, 0, 0, username, "None", "", NoBlob)
             /\ UNCHANGED <<master_keys, patient_keys, key_cache, key_history,
                            data_keys, sessions, access_logs, now, revoked_tokens, threads, issued, registered,
                            config, stats, facade>>
        ELSE LET d == CHOOSE k \in known : \A j \in known : k <= j
                 mk == derive_master_key(password, facade.doctors[d].salt)
                 is_valid == mk.exc = "" /\ verify_password(password, mk)
             IN  /\ IF mk.exc # ""
                    THEN /\ stats' = Bump(stats, "errors")
                         /\ access_logs' =
                               log_access(log_access(access_logs, d, 0, "login", FALSE),
                                          d, 0, "login", FALSE)
                         /\ UNCHANGED <<master_keys, facade>>
                    ELSE IF is_valid
                    THEN /\ master_keys' = Put(master_keys, d, MasterKey(mk))
                         /\ facade' = [facade EXCEPT
                                           !.doctors[d].is_authenticated = TRUE]
                         /\ access_logs' =
                               log_access(log_access(access_logs, d, 0, "login", TRUE),
                                          d, 0, "login", TRUE)
                         /\ UNCHANGED stats
                    ELSE /\ access_logs' =
                               log_access(log_access(access_logs, d, 0, "login", FALSE),
                                          d, 0, "login", FALSE)
                         /\ UNCHANGED <<master_keys, stats, facade>>
                 /\ ret' = Ret("facade_login_doctor", d, 0, 0, username,
                               IF is_valid THEN "ok" ELSE "None", "", NoBlob)
                 /\ UNCHANGED <<patient_keys, key_cache, key_history, data_keys,
                                sessions, now, revoked_tokens, threads, issued, registered, config>>

\* logout_doctor(doctor_id): False for an unknown doctor, else the security
\* system's logout_doctor and, when that succeeded, is_authenticated = False.
FacadeLogoutDoctor(d) ==
    /\ IF d \in DOMAIN facade.doctors /\ d \in DOMAIN master_keys
       THEN LET rv == revoke_all_sessions(AM, d, 0)
            IN  /\ master_keys' = Del(master_keys, d)
                /\ sessions' = rv.S
                /\ patient_keys' = Del(patient_keys, d)
                /\ facade' = [facade EXCEPT
                                  !.doctors[d].is_authenticated = FALSE,
                                  !.sessions_cache = cleanup_doctor_sessions(@, d)]
                /\ access_logs' = log_access(log_access(rv.L, d, 0, "logout", TRUE),
                                             d, 0, "logout", TRUE)
                /\ ret' = Ret("facade_logout_doctor", d, 0, 0, "", "true", "", NoBlob)
       ELSE /\ ret' = Ret("facade_logout_doctor", d, 0, 0, "", "false", "", NoBlob)
            /\ UNCHANGED <<master_keys, sessions, patient_keys, access_logs, facade>>
    /\ UNCHANGED <<key_cache, key_history, data_keys, now, revoked_tokens, threads, issued, registered,
                   config, stats>>

\* add_patient(doctor_id, full_name)
AddPatient(d) ==
    IF d \notin DOMAIN facade.doctors \/ ~facade.doctors[d].is_authenticated
    THEN /\ ret' = Ret("add_patient", d, 0, 0, "", "CryptoError", "", NoBlob)
         /\ UNCHANGED <<master_keys, patient_keys, key_cache, key_history, data_keys,
                        sessions, access_logs, now, revoked_tokens, threads, issued, registered, config, stats,
                        facade>>
    ELSE LET patient_id == MaxKey(facade.patients) + 1
             sp == setup_patient(ST, d, patient_id)
         IN  /\ patient_keys' = sp.pk
             /\ key_cache' = sp.km.cache
             /\ key_history' = sp.km.history
             /\ data_keys' = sp.km.keys
             /\ IF sp.exc # ""
                THEN /\ access_logs' = log_access(sp.L, d, 0, "add_patient", FALSE)
                     /\ ret' = Ret("add_patient", d, 0, 0, "", "CryptoError", "",
                                   NoBlob)
                     /\ UNCHANGED facade
                ELSE /\ access_logs' = log_access(sp.L, d, patient_id, "add_patient",
                                                  TRUE)
                     /\ facade' = [facade EXCEPT !.patients =
                                       Put(@, patient_id,
                                           [doctor_id |-> d, last_accessed |-> now])]
                     /\ ret' = Ret("add_patient", d, patient_id, 0, "", "ok", "",
                                   NoBlob)
             /\ UNCHANGED <<master_keys, sessions, now, revoked_tokens, threads, issued, registered, config,
                            stats>>

\* add_medical_record(doctor_id, patient_id, record_type, plaintext_content)
AddMedicalRecord(d, p, plaintext) ==
    LET gp == get_patient(facade, d, p, now)
    IN  IF ~gp.found
        THEN /\ facade' = gp.fac
             /\ ret' = Ret("add_medical_record", d, p, 0, plaintext, "failure",
                           NotFoundPatient(p), NoBlob)
             /\ UNCHANGED <<master_keys, patient_keys, key_cache, key_history,
                            data_keys, sessions, access_logs, now, revoked_tokens, threads, issued, registered,
                            config, stats>>
        ELSE LET additional_data == Bytes(json_dumps(d, p))
                 e == encrypt_patient_data(ST, d, p, plaintext, additional_data,
                                           NewNonce(issued))
                 record_id == gp.fac.next_record_id
                 result == [doctor_id |-> d, patient_id |-> p, plaintext |-> plaintext,
                            key_id |-> e.key_id, json |-> e.json,
                            record_id |-> record_id]
             IN  /\ patient_keys' = e.pk
                 /\ key_cache' = e.km.cache
                 /\ key_history' = e.km.history
                 /\ data_keys' = e.km.keys
                 /\ stats' = e.stats
                 /\ IF e.exc # ""
                    THEN /\ facade' = gp.fac
                         /\ access_logs' = log_access(e.L, d, p, "add_medical_record",
                                                      FALSE)
                         /\ ret' = Ret("add_medical_record", d, p, 0, plaintext,
                                       "failure", "", NoBlob)
                         /\ UNCHANGED issued
                    ELSE /\ facade' =
                               [gp.fac EXCEPT
                                   !.next_record_id = @ + 1,
                                   !.medical_records =
                                       Put(@, record_id,
                                           [record_id |-> record_id, patient_id |-> p,
                                            encrypted_content |-> e.json])]
                         /\ access_logs' = log_access(e.L, d, p, "add_medical_record",
                                                      TRUE)
                         /\ ret' = Ret("add_medical_record", d, p, 0, plaintext, "ok",
                                       record_id, NoBlob)
                         /\ issued' = issued \cup {result}
                 /\ UNCHANGED <<master_keys, sessions, now, revoked_tokens, threads, registered, config>>

\* get_medical_record(doctor_id, record_id)
GetMedicalRecord(d, r) ==
    LET g == get_medical_record(facade, d, r, now)
    IN  /\ facade' = g.fac
        /\ ret' = Ret("get_medical_record", d, 0, 0,
                      [record_id |-> r, case |-> ReadCase(d, r)],
                      IF g.found THEN "ok" ELSE "None",
                      IF g.found THEN facade.medical_records[r] ELSE "", NoBlob)
        /\ UNCHANGED <<master_keys, patient_keys, key_cache, key_history, data_keys,
                       sessions, access_logs, now, revoked_tokens, threads, issued, registered, config, stats>>

\* decrypt_medical_record(doctor_id, record_id)
DecryptMedicalRecord(d, r) ==
    LET g == get_medical_record(facade, d, r, now)
        arg == [record_id |-> r, case |-> ReadCase(d, r)]
    IN  IF ~g.found
        THEN /\ facade' = g.fac
             /\ ret' = Ret("decrypt_medical_record", d, 0, 0, arg, "failure",
                           NotFoundRecord(r), NoBlob)
             /\ UNCHANGED <<master_keys, patient_keys, key_cache, key_history,
                            data_keys, sessions, access_logs, now, revoked_tokens, threads, issued, registered,
                            config, stats>>
        ELSE LET record == facade.medical_records[r]
                 dec == decrypt_patient_data(ST, d, record.patient_id,
                                             record.encrypted_content)
             IN  /\ facade' = g.fac
                 /\ stats' = dec.stats
                 /\ access_logs' = log_access(dec.L, d, record.patient_id,
                                              "decrypt_medical_record", dec.exc = "")
                 /\ ret' = Ret("decrypt_medical_record", d, record.patient_id, 0, arg,
                               IF dec.exc = "" THEN "ok" ELSE "failure",
                               IF dec.exc = "" THEN dec.plaintext
                               ELSE [error_message |-> dec.exc, id |-> r], NoBlob)
                 /\ UNCHANGED <<master_keys, patient_keys, key_cache, key_history,
                                data_keys, sessions, now, revoked_tokens, threads, issued, registered, config>>

\* Facade.create_session(doctor_id, patient_id), of access_type 'view' and the
\* default duration.
FacadeCreateSession(d, p) ==
    LET gp == get_patient(facade, d, p, now)
    IN  IF ~gp.found
        THEN /\ facade' = gp.fac
             /\ ret' = Ret("facade_create_session", d, p, 0, "", "None", "", NoBlob)
             /\ UNCHANGED <<master_keys, patient_keys, key_cache, key_history,
                            data_keys, sessions, access_logs, now, revoked_tokens, threads, issued, registered,
                            config, stats>>
        ELSE LET c == create_session(AM, d, p, "view", NoPermissions, MaxDuration, now)
                 session == c.S[c.r]
             IN  /\ sessions' = c.S
                 /\ stats' = Bump(stats, "sessions_created")
                 /\ facade' = [gp.fac EXCEPT !.sessions_cache =
                                   Put(@, c.r, [doctor_id |-> session.doctor_id,
                                                patient_id |-> session.patient_id,
                                                expires_at |-> session.expires_at,
                                                is_active |-> session.is_active])]
                 /\ access_logs' = log_access(c.L, d, p, "create_session", TRUE)
                 /\ ret' = Ret("facade_create_session", d, p, c.r, "", "ok", "", NoBlob)
                 /\ UNCHANGED <<master_keys, patient_keys, key_cache, key_history,
                                data_keys, now, revoked_tokens, threads, issued, registered, config>>

\* Facade.validate_session(session_id)
FacadeValidateSession(sid) ==
    LET v == facade_validate_session(facade, AM, sid, now)
    IN  /\ facade' = v.fac
        /\ sessions' = v.S
        /\ access_logs' = v.L
        /\ ret' = Ret("facade_validate_session", 0, 0, sid, "",
                      IF v.r THEN "true" ELSE "false", "", NoBlob)
        /\ UNCHANGED <<master_keys, patient_keys, key_cache, key_history, data_keys,
                       now, revoked_tokens, threads, issued, registered, config, stats>>

\* Facade.get_session(session_id)
FacadeGetSession(sid) ==
    LET g == facade_get_session(facade, AM, sid, now)
    IN  /\ facade' = g.fac
        /\ sessions' = g.S
        /\ access_logs' = g.L
        /\ ret' = Ret("facade_get_session", 0, 0, sid, "",
                      IF g.exc # "" THEN g.exc ELSE IF g.found THEN "ok" ELSE "None",
                      "", NoBlob)
        /\ UNCHANGED <<master_keys, patient_keys, key_cache, key_history, data_keys,
                       now, revoked_tokens, threads, issued, registered, config, stats>>

\* Facade.revoke_session(session_id): get_session, outside the try; then the
\* security system's revoke_session and, when it succeeded, the entry dropped and
\* 'revoke_session' logged once more.
FacadeRevokeSession(sid) ==
    LET g == facade_get_session(facade, AM, sid, now)
        rv == revoke_session([S |-> g.S, L |-> g.L], sid)
    IN  /\ IF g.exc # "" \/ ~g.found
           THEN /\ facade' = g.fac
                /\ sessions' = g.S
                /\ access_logs' = g.L
                /\ ret' = Ret("facade_revoke_session", 0, 0, sid, "",
                              IF g.exc # "" THEN g.exc ELSE "false", "", NoBlob)
           ELSE /\ sessions' = rv.S
                /\ IF rv.r
                   THEN /\ facade' = [g.fac EXCEPT !.sessions_cache = Del(@, sid)]
                        /\ access_logs' =
                              log_access(rv.L, facade.sessions_cache[sid].doctor_id,
                                         facade.sessions_cache[sid].patient_id,
                                         "revoke_session", TRUE)
                   ELSE /\ facade' = g.fac
                        /\ access_logs' = rv.L
                /\ ret' = Ret("facade_revoke_session", 0, 0, sid, "",
                              IF rv.r THEN "true" ELSE "false", "", NoBlob)
        /\ UNCHANGED <<master_keys, patient_keys, key_cache, key_history, data_keys,
                       now, revoked_tokens, threads, issued, registered, config, stats>>

\* clear_all_data(): the registries emptied, ids from 1 again, and the security
\* system's clear_cache.
ClearAllData ==
    /\ facade' = [doctors |-> <<>>, patients |-> <<>>, medical_records |-> <<>>,
                  next_record_id |-> 1, sessions_cache |-> <<>>]
    /\ master_keys' = EmptyDict
    /\ patient_keys' = EmptyDict
    /\ key_cache' = EmptyDict
    /\ ret' = Ret("clear_all_data", 0, 0, 0, "", "ok", "", NoBlob)
    /\ UNCHANGED <<key_history, data_keys, sessions, access_logs, now, revoked_tokens, threads, issued,
                   registered, config, stats>>

\* SpecFacade: two doctors' worth of callers on one facade.
Usernames == {"al", "alice"}
FacadePasswords == {"short", "password0"}
RecordIds == 1..2

Facade_RegisterDoctor ==
    \E u \in Usernames, pw \in FacadePasswords :
        RegisterDoctor(u, pw) /\ LogWithin(MaxLogFacade)
Facade_LoginDoctor ==
    \E u \in Usernames : FacadeLoginDoctor(u, "password0") /\ LogWithin(MaxLogFacade)
Facade_LogoutDoctor ==
    \E d \in Doctors : FacadeLogoutDoctor(d) /\ LogWithin(MaxLogFacade)
Facade_AddPatient ==
    \E d \in Doctors : AddPatient(d) /\ LogWithin(MaxLogFacade)
Facade_AddMedicalRecord ==
    \E d \in Doctors, p \in 1..2 :
        AddMedicalRecord(d, p, "AD") /\ LogWithin(MaxLogFacade)
Facade_GetMedicalRecord ==
    \E d \in Doctors, r \in RecordIds : GetMedicalRecord(d, r)
Facade_DecryptMedicalRecord ==
    \E d \in Doctors, r \in RecordIds :
        DecryptMedicalRecord(d, r) /\ LogWithin(MaxLogFacade)
Facade_CreateSession ==
    \E d \in Doctors, p \in 1..2 :
        FacadeCreateSession(d, p) /\ LogWithin(MaxLogFacade)

NextFacade ==
    \/ Facade_RegisterDoctor
    \/ Facade_LoginDoctor
    \/ Facade_LogoutDoctor
    \/ Facade_AddPatient
    \/ Facade_AddMedicalRecord
    \/ Facade_GetMedicalRecord
    \/ Facade_DecryptMedicalRecord
    \/ Facade_CreateSession
    \/ ClearAllData
    \/ Tick

SpecFacade == Init /\ [][NextFacade]_vars

\* ------------------------------------------------------------------------
\* SpecRecords: one doctor who registers, logs in and out, adds patients and
\* records (an empty record cannot be encrypted), and clears the facade.
Records_RegisterDoctor ==
    RegisterDoctor("alice", "password0") /\ LogWithin(MaxLogRecords)
Records_LoginDoctor ==
    FacadeLoginDoctor("alice", "password0") /\ LogWithin(MaxLogRecords)
Records_LogoutDoctor == FacadeLogoutDoctor(TheDoctor) /\ LogWithin(MaxLogRecords)
Records_AddPatient == AddPatient(TheDoctor) /\ LogWithin(MaxLogRecords)
Records_AddMedicalRecord ==
    \E p \in 1..2, plaintext \in Plaintexts :
        AddMedicalRecord(TheDoctor, p, plaintext) /\ LogWithin(MaxLogRecords)

NextRecords ==
    \/ Records_RegisterDoctor
    \/ Records_LoginDoctor
    \/ Records_LogoutDoctor
    \/ Records_AddPatient
    \/ Records_AddMedicalRecord
    \/ ClearAllData

SpecRecords == Init /\ [][NextRecords]_vars

\* ------------------------------------------------------------------------
\* SpecCache: one doctor with a patient opens sessions through the facade; time
\* passes, and sessions are looked up, validated and revoked through the facade, or
\* revoked in the security system the facade shares.
Cache_RegisterDoctor ==
    RegisterDoctor("alice", "password0") /\ LogWithin(MaxLogCache)
Cache_LoginDoctor ==
    FacadeLoginDoctor("alice", "password0") /\ LogWithin(MaxLogCache)
Cache_LogoutDoctor == FacadeLogoutDoctor(TheDoctor) /\ LogWithin(MaxLogCache)
Cache_AddPatient == AddPatient(TheDoctor) /\ LogWithin(MaxLogCache)
Cache_CreateSession ==
    \E d \in Doctors : FacadeCreateSession(d, 1) /\ LogWithin(MaxLogCache)
Cache_ValidateSession ==
    \E sid \in SessionIds : FacadeValidateSession(sid) /\ LogWithin(MaxLogCache)
Cache_GetSession ==
    \E sid \in SessionIds : FacadeGetSession(sid) /\ LogWithin(MaxLogCache)
Cache_RevokeSession ==
    \E sid \in SessionIds : FacadeRevokeSession(sid) /\ LogWithin(MaxLogCache)
Cache_SecurityRevokeSession ==
    \E sid \in SessionIds : RevokeSession(sid) /\ LogWithin(MaxLogCache)

NextCache ==
    \/ Cache_RegisterDoctor
    \/ Cache_LoginDoctor
    \/ Cache_LogoutDoctor
    \/ Cache_AddPatient
    \/ Cache_CreateSession
    \/ Cache_ValidateSession
    \/ Cache_GetSession
    \/ Cache_RevokeSession
    \/ Cache_SecurityRevokeSession
    \/ Tick

SpecCache == Init /\ [][NextCache]_vars

\* ------------------------------------------------------------------------
\* SpecThreads: doctor 1 is set up, sets each patient up once, encrypts and opens
\* sessions while the clock runs; then up to MaxThreads threads each make one call
\* of the security system, their steps interleaved in every order.
ThreadOps ==
    {"rotate_patient_key", "encrypt_patient_data", "decrypt_patient_data",
     "create_access_session", "revoke_session", "validate_session"}
SessionOps == {"revoke_session", "validate_session"}

AllIdle == \A t \in Threads : threads[t].pc = "idle"
Quiescent == \A t \in Threads : threads[t].pc \in {"idle", "done"}

Thr_SetupDoctor ==
    AllIdle /\ SetupDoctor(TheDoctor, ThePassword) /\ LogWithin(MaxLogThreads)
Thr_SetupPatient ==
    \E p \in Patients :
        /\ AllIdle
        /\ p \notin DOMAIN key_cache
        /\ SetupPatient(TheDoctor, p)
        /\ LogWithin(MaxLogThreads)
Thr_EncryptPatientData ==
    \E p \in Patients :
        AllIdle /\ EncryptPatientData(TheDoctor, p, "AD") /\ LogWithin(MaxLogThreads)
Thr_CreateAccessSession ==
    \E p \in Patients :
        /\ AllIdle
        /\ CreateAccessSession(TheDoctor, p, MaxDuration)
        /\ LogWithin(MaxLogThreads)
Thr_Tick == AllIdle /\ Tick

Thr_Call ==
    \E t \in Threads, op \in ThreadOps, p \in Patients, sid \in SessionIds :
        /\ op \in SessionOps \/ sid = UnknownSession
        /\ Call(t, op, IF op \in SessionOps THEN 0 ELSE TheDoctor,
                IF op \in SessionOps THEN 0 ELSE p, sid)
Thr_RotStart == \E t \in Threads : RotStart(t)
Thr_RotLookup == \E t \in Threads : RotLookup(t)
Thr_RotMark == \E t \in Threads : RotMark(t)
Thr_RotGenerate == \E t \in Threads : RotGenerate(t)
Thr_RotUpdate == \E t \in Threads : RotUpdate(t)
Thr_EncStart == \E t \in Threads : EncStart(t)
Thr_EncEncrypt == \E t \in Threads : EncEncrypt(t, "AD")
Thr_DecStart == \E t \in Threads, b \in issued : DecStart(t, b)
Thr_CreateStart == \E t \in Threads : CreateStart(t, MaxDuration)
Thr_StatsLoad == \E t \in Threads : StatsLoad(t)
Thr_StatsStore == \E t \in Threads : StatsStore(t)
Thr_ValStart == \E t \in Threads : ValStart(t)
Thr_RevStart == \E t \in Threads : RevStart(t)
Thr_RevDeactivate == \E t \in Threads : RevDeactivate(t)

NextThreads ==
    \/ Thr_SetupDoctor
    \/ Thr_SetupPatient
    \/ Thr_EncryptPatientData
    \/ Thr_CreateAccessSession
    \/ Thr_Tick
    \/ Thr_Call
    \/ Thr_RotStart
    \/ Thr_RotLookup
    \/ Thr_RotMark
    \/ Thr_RotGenerate
    \/ Thr_RotUpdate
    \/ Thr_EncStart
    \/ Thr_EncEncrypt
    \/ Thr_DecStart
    \/ Thr_CreateStart
    \/ Thr_StatsLoad
    \/ Thr_StatsStore
    \/ Thr_ValStart
    \/ Thr_RevStart
    \/ Thr_RevDeactivate

SpecThreads == Init /\ [][NextThreads]_vars

\* ------------------------------------------------------------------------
\* SpecAuth: callers revoke and verify tokens of one AuthManager while the clock
\* runs.
Auth_RevokeToken == \E token \in Tokens : RevokeToken(token)
Auth_VerifyToken == \E token \in Tokens : VerifyToken(token)

NextAuth ==
    \/ Auth_RevokeToken
    \/ RevokeOtherToken
    \/ Auth_VerifyToken
    \/ Tick

SpecAuth == Init /\ [][NextAuth]_vars

\* ========================================================================
\* Claims
Last(seq) == seq[Len(seq)]
Appended == Len(access_logs') - Len(access_logs)
Holds(d, p) == get_patient_key(patient_keys, d, p) # NoKeyId

\* C1: login_doctor verifies the password.  For a doctor registered through
\* setup_doctor with password pw0, login_doctor with a non-empty pw # pw0 returns
\* false, logs one 'login' event with success = false and leaves the master-key
\* cache unchanged; with pw = pw0 it returns true and caches the derived key.
C1_LoginVerifiesPassword ==
    [][(ret'.op = "login_doctor" /\ ret'.doctor_id \in DOMAIN registered
            /\ ret'.arg # "")
       => IF ret'.arg # registered[ret'.doctor_id]
          THEN /\ ret'.result = "false"
               /\ master_keys' = master_keys
               /\ Appended = 1
               /\ Last(access_logs').action = "login"
               /\ ~Last(access_logs').success
          ELSE /\ ret'.result = "true"
               /\ ret'.doctor_id \in DOMAIN master_keys'
               /\ master_keys'[ret'.doctor_id].key_bytes
                    = derive_master_key(registered[ret'.doctor_id], DoctorSalt).key_bytes
      ]_vars

\* C2: a logged-in doctor who holds a current key for the patient decrypts every
\* blob of that patient whose key has since been rotated (the key is found in the
\* history by the blob's key_id); a blob produced by encrypt_patient_data carries
\* the doctor's current key id; and a rotation installs a key id that is new.
C2_OldBlobsDecryptAfterRotation ==
    /\ (/\ ret.op = "decrypt_patient_data"
        /\ ret.blob.doctor_id = ret.doctor_id
        /\ ret.blob.patient_id = ret.patient_id
        /\ ret.doctor_id \in DOMAIN master_keys
        /\ Holds(ret.doctor_id, ret.patient_id)
        /\ data_keys[ret.blob.key_id].last_rotated >= 0
        /\ ret.blob.key_id \in key_history[ret.patient_id])
       => (ret.result = "ok" /\ ret.out = ret.blob.plaintext)
    /\ (ret.op = "encrypt_patient_data" /\ ret.result = "ok")
       => (/\ ret.blob.json.key_id = get_patient_key(patient_keys, ret.doctor_id,
                                                     ret.patient_id)
           /\ data_keys[ret.blob.json.key_id].last_rotated < 0)
    /\ (ret.op = "rotate_patient_key" /\ ret.result = "ok")
       => (/\ get_patient_key(patient_keys, ret.doctor_id, ret.patient_id) = ret.out
           /\ \A b \in issued : b.key_id # ret.out)

\* C3: a blob that encrypt_patient_data(d, p, .) returned is decrypted to its
\* plaintext by decrypt_patient_data(d, p, .) called right after logout_doctor(d)
\* and a successful login_doctor(d), the patient's key not having been replaced.
C3_DecryptAfterRelogin ==
    (/\ ret.op = "decrypt_patient_data"
     /\ ret.blob.doctor_id = ret.doctor_id
     /\ ret.blob.patient_id = ret.patient_id
     /\ ret.patient_id \in DOMAIN key_cache
     /\ key_cache[ret.patient_id] = ret.blob.key_id
     /\ Len(access_logs) >= 2
     /\ Last(access_logs)
          = [doctor_id |-> ret.doctor_id, patient_id |-> 0, action |-> "login",
             success |-> TRUE]
     /\ access_logs[Len(access_logs) - 1]
          = [doctor_id |-> ret.doctor_id, patient_id |-> 0, action |-> "logout",
             success |-> TRUE])
    => (ret.result = "ok" /\ ret.out = ret.blob.plaintext)

\* C4: decrypt_patient_data(d2, p, B), for a blob B that another doctor d1 produced
\* for p and a doctor d2 who holds no key of p, fails with AccessDeniedError and
\* appends exactly one 'decrypt_data' event with success = false.
C4_WrongDoctorDenied ==
    [][(/\ ret'.op = "decrypt_patient_data"
        /\ ret'.blob.doctor_id # ret'.doctor_id
        /\ ret'.blob.patient_id = ret'.patient_id
        /\ ~Holds(ret'.doctor_id, ret'.patient_id))
       => /\ ret'.result = "AccessDeniedError"
          /\ Appended = 1
          /\ Last(access_logs')
               = [doctor_id |-> ret'.doctor_id, patient_id |-> ret'.patient_id,
                  action |-> "decrypt_data", success |-> FALSE]
      ]_vars

SecurityOps ==
    {"setup_doctor", "login_doctor", "logout_doctor", "setup_patient",
     "rotate_patient_key", "encrypt_patient_data", "decrypt_patient_data",
     "create_access_session", "revoke_session"}

\* C5: every successful SecuritySystem operation appends exactly one audit event,
\* with success = true.
C5_OneEventPerSuccess ==
    [][(ret'.op \in SecurityOps /\ ret'.result \in {"ok", "true"})
       => (Appended = 1 /\ Last(access_logs').success)
      ]_vars

\* C6: every SecuritySystem operation that fails (raises, or returns a failure
\* value) appends exactly one audit event, with success = false.
C6_OneEventPerFailure ==
    [][(ret'.op \in SecurityOps /\ ret'.result \notin {"ok", "true"})
       => (Appended = 1 /\ ~Last(access_logs').success)
      ]_vars

\* C7: validate_session(id) returns true iff the session exists, is active and
\* now < expires_at; for an unknown id it returns false and changes nothing.
C7_ValidIffActiveAndBeforeExpiry ==
    [][ret'.op = "validate_session"
       => /\ ret'.result = "true"
             <=> (/\ ret'.session_id \in DOMAIN sessions
                  /\ sessions[ret'.session_id].is_active
                  /\ now < sessions[ret'.session_id].expires_at)
          /\ ret'.session_id \notin DOMAIN sessions
             => (sessions' = sessions /\ access_logs' = access_logs)
      ]_vars

\* C8: lazy expiry.  validate_session(s) at a time now > s.expires_at returns false
\* and leaves s inactive; from then on (s inactive) validate_session(s) and
\* revoke_session(s) return false and s stays inactive.
C8_LazyExpiry ==
    [][\A sid \in DOMAIN sessions :
          /\ (ret'.op = "validate_session" /\ ret'.session_id = sid
                 /\ now > sessions[sid].expires_at)
             => (ret'.result = "false" /\ ~sessions'[sid].is_active)
          /\ (ret'.op \in {"validate_session", "revoke_session"}
                 /\ ret'.session_id = sid /\ ~sessions[sid].is_active)
             => (ret'.result = "false" /\ ~sessions'[sid].is_active)
      ]_vars

\* C8 witness: a validation found an active session past its expiry and revoked it.
C8_Witness ==
    /\ ret.op = "validate_session"
    /\ ret.result = "false"
    /\ ret.session_id \in DOMAIN sessions
    /\ now > sessions[ret.session_id].expires_at
    /\ ~sessions[ret.session_id].is_active
    /\ Len(access_logs) > 0
    /\ Last(access_logs).action = "revoke_session"

\* C9: revoke_session on an active session returns true, deactivates it and logs
\* one 'revoke_session' event; on an inactive session or an unknown id it returns
\* false and changes neither the sessions nor the log.
C9_RevokeOnce ==
    [][ret'.op = "revoke_session"
       => IF ret'.session_id \in DOMAIN sessions /\ sessions[ret'.session_id].is_active
          THEN /\ ret'.result = "true"
               /\ sessions' = [sessions EXCEPT ![ret'.session_id].is_active = FALSE]
               /\ access_logs'
                    = Append(access_logs,
                             [doctor_id |-> sessions[ret'.session_id].doctor_id,
                              patient_id |-> sessions[ret'.session_id].patient_id,
                              action |-> "revoke_session", success |-> TRUE])
          ELSE /\ ret'.result = "false"
               /\ sessions' = sessions
               /\ access_logs' = access_logs
      ]_vars

\* C9 witness: a second revoke_session of a session that the call before it revoked.
C9_Witness ==
    /\ ret.op = "revoke_session"
    /\ ret.result = "false"
    /\ ret.session_id \in DOMAIN sessions
    /\ now <= sessions[ret.session_id].expires_at
    /\ Len(access_logs) > 0
    /\ Last(access_logs).action = "revoke_session"
    /\ Last(access_logs).doctor_id = sessions[ret.session_id].doctor_id

\* C10: an inactive session is terminal: no call makes it active again, validates
\* it, or returns it among the active sessions.
C10_InactiveIsTerminal ==
    [][\A sid \in DOMAIN sessions :
          ~sessions[sid].is_active
          => /\ sid \in DOMAIN sessions'
             /\ ~sessions'[sid].is_active
             /\ (ret'.op = "validate_session" /\ ret'.session_id = sid)
                => ret'.result = "false"
             /\ ret'.op = "get_active_sessions" => sid \notin ret'.out
      ]_vars

\* C10 witness: a doctor logs in again after the logout that revoked that doctor's
\* session, which has not expired; the session is still inactive.
C10_Witness ==
    /\ ret.op = "login_doctor"
    /\ ret.result = "true"
    /\ \E sid \in DOMAIN sessions :
          /\ sessions[sid].doctor_id = ret.doctor_id
          /\ ~sessions[sid].is_active
          /\ now <= sessions[sid].expires_at

\* The sessions revoke_all_sessions(d, p) is about; p = 0 stands for no patient given.
Targeted(S, d, p) ==
    {sid \in DOMAIN S : S[sid].doctor_id = d /\ (p = 0 \/ S[sid].patient_id = p)}

\* C11: revoke_all_sessions(d, p?) returns the number of sessions of doctor d (of
\* patient p when given) that were active before the call; afterwards none of
\* them is active, and every other session is unchanged.
C11_RevokeAllCountsAndFrame ==
    [][ret'.op = "revoke_all_sessions"
       => LET T == Targeted(sessions, ret'.doctor_id, ret'.patient_id)
          IN  /\ ret'.out = Cardinality({sid \in T : sessions[sid].is_active})
              /\ DOMAIN sessions' = DOMAIN sessions
              /\ \A sid \in T : ~sessions'[sid].is_active
              /\ \A sid \in DOMAIN sessions \ T : sessions'[sid] = sessions[sid]
      ]_vars

\* C11 witness: a call for one patient revoked one session of the doctor and left
\* an active session of the same doctor on another patient.
C11_Witness ==
    /\ ret.op = "revoke_all_sessions"
    /\ ret.patient_id # 0
    /\ ret.out = 1
    /\ \E sid \in DOMAIN sessions :
          /\ sessions[sid].doctor_id = ret.doctor_id
          /\ sessions[sid].patient_id # ret.patient_id
          /\ sessions[sid].is_active

\* Doctor d's entry of a cache: <<present, value>>.
Entry(cache, d) == IF d \in DOMAIN cache THEN <<TRUE, cache[d]>> ELSE <<FALSE>>

\* C12: after logout_doctor(d) returns, whether or not d had a cached master key,
\* d has no cached master key, no cached data key and no active session; the
\* master keys, cached data keys and sessions of every other doctor are unchanged.
C12_LogoutLeavesNothing ==
    [][ret'.op = "logout_doctor"
       => LET d == ret'.doctor_id
          IN  /\ d \notin DOMAIN master_keys'
              /\ d \notin DOMAIN patient_keys'
              /\ \A sid \in DOMAIN sessions' :
                    sessions'[sid].doctor_id = d => ~sessions'[sid].is_active
              /\ \A e \in Doctors \ {d} :
                    /\ Entry(master_keys', e) = Entry(master_keys, e)
                    /\ Entry(patient_keys', e) = Entry(patient_keys, e)
              /\ DOMAIN sessions' = DOMAIN sessions
              /\ \A sid \in DOMAIN sessions :
                    sessions[sid].doctor_id # d => sessions'[sid] = sessions[sid]
      ]_vars

\* C13: master-key cache state machine.  No master key is cached initially; a
\* successful setup_doctor / login_doctor of d caches the key derived from its
\* password; logout_doctor(d) and clear_cache leave d without a cached key; a failed
\* setup_doctor / login_doctor and every other call leave d's entry unchanged.
C13_MasterKeyCache ==
    /\ master_keys = EmptyDict
    /\ [][\A d \in Doctors :
             IF /\ ret'.op \in {"setup_doctor", "login_doctor"}
                /\ ret'.doctor_id = d
                /\ ret'.result \in {"ok", "true"}
             THEN /\ d \in DOMAIN master_keys'
                  /\ master_keys'[d].key_bytes
                       = derive_master_key(ret'.arg, DoctorSalt).key_bytes
             ELSE IF \/ ret'.op = "logout_doctor" /\ ret'.doctor_id = d
                     \/ ret'.op = "clear_cache"
             THEN d \notin DOMAIN master_keys'
             ELSE Entry(master_keys', d) = Entry(master_keys, d)
         ]_vars

\* C13 witness: a setup_doctor with the empty password failed for a doctor whose
\* master key is cached.
C13_Witness ==
    /\ ret.op = "setup_doctor"
    /\ ret.arg = ""
    /\ ret.result = "CryptoError"
    /\ ret.doctor_id \in DOMAIN master_keys

\* C14: key history is retained.  No call removes a key from key_history(p); every
\* key ever generated for p is in key_history(p), and so is the current key of p;
\* a rotation returns a key whose id is that of no earlier key, caches it, and
\* leaves the previous key in the history, stamped as rotated.
C14_KeyHistoryRetained ==
    [][/\ \A p \in DOMAIN key_history :
             p \in DOMAIN key_history' /\ key_history[p] \subseteq key_history'[p]
       /\ \A kid \in DOMAIN data_keys' :
             /\ data_keys'[kid].patient_id \in DOMAIN key_history'
             /\ kid \in key_history'[data_keys'[kid].patient_id]
       /\ \A p \in DOMAIN key_cache' : key_cache'[p] \in key_history'[p]
       /\ (ret'.op = "rotate_patient_key" /\ ret'.result = "ok")
          => LET p == ret'.patient_id
             IN  /\ ret'.out \notin DOMAIN data_keys
                 /\ key_cache'[p] = ret'.out
                 /\ key_cache[p] \in key_history'[p]
                 /\ data_keys'[key_cache[p]].last_rotated >= 0
      ]_vars

\* C14 witness: clear_cache emptied the key cache of a patient whose history
\* holds a rotated key and its successor.
C14_Witness ==
    /\ ret.op = "clear_cache"
    /\ \E p \in DOMAIN key_history :
          /\ p \notin DOMAIN key_cache
          /\ \E k1, k2 \in key_history[p] :
                data_keys[k1].last_rotated >= 0 /\ data_keys[k2].last_rotated < 0

\* C15: rotate_data_key for a patient without a current key in the KeyManager
\* (never generated, or evicted by clear_cache) fails with KeyRotationError, which
\* rotate_patient_key reports as CryptoError, and leaves the key cache and the key
\* history unchanged.
C15_RotateWithoutCurrentKey ==
    [][(/\ ret'.op = "rotate_patient_key"
        /\ ret'.doctor_id \in DOMAIN master_keys
        /\ ret'.patient_id \notin DOMAIN key_cache)
       => /\ rotate_data_key(KM, ret'.patient_id, now).exc = "KeyRotationError"
          /\ ret'.result = "CryptoError"
          /\ key_cache' = key_cache
          /\ key_history' = key_history
          /\ data_keys' = data_keys
      ]_vars

\* C15 witness: a rotation failed for a patient whose key clear_cache had evicted.
C15_Witness ==
    /\ ret.op = "rotate_patient_key"
    /\ ret.result = "CryptoError"
    /\ ret.doctor_id \in DOMAIN master_keys
    /\ ret.patient_id \notin DOMAIN key_cache
    /\ ret.patient_id \in DOMAIN key_history
    /\ Last(access_logs).action = "rotate_key"

\* The keys of key_history(p) that are not stamped as rotated.
Unrotated(p) == {kid \in key_history[p] : data_keys[kid].last_rotated < 0}

\* C16: per-patient data-key state machine.  For every patient p at most one key of
\* key_history(p) is un-rotated, and a current key cached for p is that key.
C16_OneCurrentKeyPerPatient ==
    \A p \in DOMAIN key_history :
        /\ Cardinality(Unrotated(p)) <= 1
        /\ p \in DOMAIN key_cache => Unrotated(p) = {key_cache[p]}

\* C17: patient isolation.  decrypt_patient_data(d, p2, .) never decrypts a blob
\* that encrypt_patient_data(d, p1, .) produced for another patient p1 # p2: the
\* call fails.
C17_PatientIsolation ==
    (/\ ret.op = "decrypt_patient_data"
     /\ ret.blob.doctor_id = ret.doctor_id
     /\ ret.blob.patient_id # ret.patient_id)
    => ret.result \in {"CryptoError", "AccessDeniedError"}

\* C17 witness: the doctor, who holds a key of p2, was refused on a blob of p1.
C17_Witness ==
    /\ ret.op = "decrypt_patient_data"
    /\ ret.blob.doctor_id = ret.doctor_id
    /\ ret.blob.patient_id # ret.patient_id
    /\ Holds(ret.doctor_id, ret.patient_id)
    /\ Holds(ret.doctor_id, ret.blob.patient_id)
    /\ ret.result = "CryptoError"
    /\ Last(access_logs).action = "decrypt_data"

\* C18: key-id binding.  A blob returned by encrypt(p, k, a) has key_id = k.key_id,
\* and decrypt(blob, k2) with k2.key_id # blob.key_id is refused with
\* DecryptionError, even when k2 has the key bytes of k.
C18_KeyIdBinding ==
    /\ (ret.op = "provider_encrypt" /\ ret.result = "ok")
       => ret.blob.key_id = ret.arg.key.key_id
    /\ (ret.op = "provider_decrypt" /\ ret.arg.key.key_id # ret.blob.key_id)
       => ret.result = "DecryptionError"

\* C18 witness: a key with the bytes of the blob's key and another id was refused.
C18_Witness ==
    /\ ret.op = "provider_decrypt"
    /\ ret.arg.field = "none"
    /\ ret.arg.key.key_id # ret.blob.key_id
    /\ ret.arg.key.key_bytes = ret.arg.made.key.key_bytes
    /\ ret.result = "DecryptionError"

\* C19: round trip.  For a non-empty plaintext p, a key k and an AAD a, absent or
\* any byte string, decrypt(encrypt(p, k, a), k) = p; the blob's additional_data is
\* a when the caller supplies a, and the default AAD only when a is absent.
C19_RoundTripAndAAD ==
    (ret.op = "provider_encrypt" /\ ret.arg.plaintext # "")
    => /\ ret.result = "ok"
       /\ provider_decrypt(ret.blob, ret.arg.key)
            = [exc |-> "", plaintext |-> ret.arg.plaintext]
       /\ ret.arg.aad # NoAAD => ret.blob.additional_data = ret.arg.aad
       /\ ret.arg.aad = NoAAD => ret.blob.additional_data = default_aad(ret.arg.key)

\* C20: tamper detection.  decrypt(b', k) of a blob b' that differs from a blob made
\* under k in its ciphertext, nonce or additional_data fails with DecryptionError.
C20_TamperDetected ==
    (ret.op = "provider_decrypt" /\ ret.arg.field # "none")
    => (ret.result = "DecryptionError" /\ ret.out = "")

\* C20 witness: the ciphertext of another blob made under the same key and the
\* same AAD was put in the blob's place and refused.
C20_Witness ==
    /\ ret.op = "provider_decrypt"
    /\ ret.arg.field = "ciphertext"
    /\ ret.blob.ciphertext.key = ret.arg.key.key_bytes
    /\ ret.blob.ciphertext.aad = ret.blob.additional_data
    /\ ret.blob.key_id = ret.arg.key.key_id
    /\ ret.result = "DecryptionError"

\* C21: bounded append-only audit log.  With max_log_entries = N > 0 the log never
\* has more than N entries and is the last min(total, N) of the events logged, in
\* the order they were logged; a call leaves the entries it keeps as they were and
\* in their order, dropping only the oldest.
C21_BoundedLog ==
    /\ [](LET N == config.max_log_entries
              total == Len(Logged)
              kept == IF total < N THEN total ELSE N
          IN  /\ Len(access_logs) <= N
              /\ access_logs = SubSeq(Logged, total - kept + 1, total))
    /\ [][\E dropped \in 0..Len(access_logs) :
             /\ Len(access_logs') = Len(access_logs) - dropped + 1
             /\ \A i \in 1..(Len(access_logs) - dropped) :
                    access_logs'[i] = access_logs[i + dropped]
             /\ Last(access_logs') = ret'.arg
         ]_vars

\* C21 witness: a log of capacity two or more is full and has dropped its oldest
\* event, which differs from the oldest one it keeps.
C21_Witness ==
    /\ config.max_log_entries >= 2
    /\ Len(access_logs) = config.max_log_entries
    /\ Len(Logged) > config.max_log_entries
    /\ access_logs[1] # Logged[1]

\* The table of default permissions by access type.
DefaultTable(access_type) ==
    IF access_type = "view" THEN ViewNames
    ELSE IF access_type = "edit"
    THEN ViewNames \cup {"create_records", "edit_records", "export_data"}
    ELSE ViewNames \cup ChangeNames \cup {"emergency_access"}

\* The names has_permission is asked about.
AskedNames ==
    ViewNames \cup ChangeNames
        \cup {"emergency_access", "custom_permission", "read", "write", "delete"}

\* C22: default permissions.  A session created with permissions omitted and access
\* type view, edit or emergency has, of the nine permission names, exactly those of
\* the table for its type; a session created with a supplied map has exactly the
\* permissions the map sets to true.
C22_DefaultPermissions ==
    ret.op = "create_session"
    => LET session == sessions[ret.session_id]
       IN  IF ~ret.arg.permissions.given
           THEN \A n \in ViewNames \cup ChangeNames \cup {"emergency_access"} :
                   has_permission(session, n) <=> n \in DefaultTable(ret.arg.access_type)
           ELSE \A n \in AskedNames :
                   has_permission(session, n)
                   <=> (n \in DOMAIN ret.arg.permissions.map
                        /\ ret.arg.permissions.map[n])

\* C23: from_json(to_json(b)) = b for every EncryptedData b: ciphertext, nonce,
\* additional_data, version, algorithm and key_id, an absent key_id included, are
\* all preserved.
C23_JsonRoundTrip ==
    ret.op = "json_round_trip" => (ret.result = "ok" /\ ret.out = ret.arg)

\* C23 witness: a blob of version 1.0 without a key_id came back as it was.
C23_Witness ==
    /\ ret.op = "json_round_trip"
    /\ ret.arg.key_id = NoKeyId
    /\ ret.arg.version = "1.0"
    /\ ret.out.key_id = NoKeyId
    /\ ret.out.ciphertext = ret.arg.ciphertext

\* C24: from_json rejects with a decode error every JSON object that lacks one of
\* ciphertext, nonce, additional_data, version, algorithm, key_id; and
\* decrypt_patient_data never accepts a blob without key_id.
C24_MissingFieldRejected ==
    /\ ret.op = "from_json" => ret.result \notin {"ok"}
    /\ (ret.op = "decrypt_patient_data" /\ "key_id" \notin DOMAIN ret.blob.json)
       => ret.result # "ok"

\* C25: wrap / unwrap round trip.  decrypt_data_key(encrypt_data_key(k, m), m) has
\* the key_bytes, salt and key_id of k; under another master key m2 the call fails
\* and returns no key.
C25_WrapRoundTrip ==
    (ret.op = "decrypt_data_key" /\ ret.arg.kind = "stored")
    => IF ret.arg.password = ret.arg.made.password
       THEN /\ ret.result = "ok"
            /\ ret.out.key_bytes = ret.arg.made.key.key_bytes
            /\ ret.out.salt = ret.arg.made.key.salt
            /\ ret.out.key_id = ret.arg.made.key.key_id
       ELSE /\ ret.result # "ok"
            /\ ret.out = NoDataKey

\* C25 witness: a key whose id has a two-byte character was wrapped and unwrapped
\* under the same master key.
C25_Witness ==
    /\ ret.op = "decrypt_data_key"
    /\ ret.arg.kind = "stored"
    /\ ret.arg.password = ret.arg.made.password
    /\ ret.result = "ok"
    /\ ret.out.key_id = <<107, 233>>
    /\ Len(ret.arg.made.wrapped) = 13

\* C26: every failure of decrypt_data_key (wrong master key, changed bytes, a
\* plaintext shorter than 64 bytes, a key id that is not valid UTF-8) is reported
\* as DecryptionError and as no other error.
C26_FailuresAreDecryptionErrors ==
    (ret.op = "decrypt_data_key" /\ ret.result # "ok")
    => ret.result = "DecryptionError"

\* C27: KDF work-factor floor.  However the key manager was configured, directly
\* or through SecurityConfig, derive_master_key runs PBKDF2 with
\* max(configured, 100000) iterations and records that number in the MasterKey,
\* and the derived key is at least 32 bytes long; so is every stored master key.
C27_KdfFloor ==
    LET floor == IF config.given.pbkdf2_iterations < MinIterations
                 THEN MinIterations ELSE config.given.pbkdf2_iterations
    IN  /\ (ret.op = "derive_master_key" /\ ret.result = "ok")
           => /\ ret.out.ran = floor
              /\ ret.out.iterations = floor
              /\ ret.out.length >= MinKeyLength
        /\ \A d \in DOMAIN master_keys :
               /\ master_keys[d].iterations = floor
               /\ master_keys[d].key_bytes.iterations = floor
               /\ master_keys[d].key_bytes.length >= MinKeyLength

\* C28: the statistics counters are monotone and exact.  No operation, clear_cache
\* and logout included, decreases encryptions, decryptions, sessions_created or
\* errors; encrypt_patient_data (decrypt_patient_data, create_access_session) adds
\* exactly 1 to encryptions (decryptions, sessions_created) when it succeeds and
\* nothing when it fails.
Gained(counter, op) ==
    (ret'.op = op)
    => stats'[counter] = stats[counter] + (IF ret'.result = "ok" THEN 1 ELSE 0)

C29_RecordIds ==
    /\ [](\A r \in DOMAIN facade.medical_records :
              /\ facade.medical_records[r].record_id = r
              /\ r < facade.next_record_id)
    /\ [][(ret'.op = "add_medical_record")
           => IF ret'.result = "ok"
              THEN /\ \A earlier \in issued : ret'.out > earlier.record_id
                   /\ DOMAIN facade'.medical_records
                        = DOMAIN facade.medical_records \cup {ret'.out}
                   /\ facade'.next_record_id > ret'.out
              ELSE /\ facade'.medical_records = facade.medical_records
                   /\ facade'.next_record_id = facade.next_record_id]_vars

\* C30: reads do not reveal existence.  For a record that does not exist and for
\* a record of another doctor's patient alike, get_medical_record returns None and
\* decrypt_medical_record the failure whose message names only the id asked for,
\* with no plaintext; nothing is logged and no registry or other state changes.
C30_ReadsDoNotReveal ==
    [][(/\ ret'.op \in {"get_medical_record", "decrypt_medical_record"}
        /\ ret'.arg.case \in {"missing", "foreign"})
       => /\ ret'.result = IF ret'.op = "get_medical_record" THEN "None" ELSE "failure"
          /\ ret'.out = IF ret'.op = "get_medical_record" THEN ""
                        ELSE NotFoundRecord(ret'.arg.record_id)
          /\ UNCHANGED <<facade, access_logs, stats, master_keys, patient_keys,
                         key_cache, key_history, data_keys, sessions, now, revoked_tokens, threads, issued,
                         registered, config>>]_vars

\* C30 witness: a doctor asked to decrypt the stored record of another doctor's
\* patient, at a time later than the patient's last access.
C30_Witness ==
    /\ ret.op = "decrypt_medical_record"
    /\ ret.arg.case = "foreign"
    /\ ret.result = "failure"
    /\ ret.arg.record_id \in DOMAIN facade.medical_records
    /\ \E p \in DOMAIN facade.patients : facade.patients[p].last_accessed < now

\* C31: setup_patient(d, p) and rotate_patient_key(d, p) need a cached master key
\* of d.  Without one they fail with CryptoError, generate no data key, and leave
\* the SecuritySystem's key cache, the KeyManager's cache and the key history as
\* they were.
C31_MasterKeyRequired ==
    [][(/\ ret'.op \in {"setup_patient", "rotate_patient_key"}
        /\ ret'.doctor_id \notin DOMAIN master_keys)
       => /\ ret'.result = "CryptoError"
          /\ data_keys' = data_keys
          /\ patient_keys' = patient_keys
          /\ key_cache' = key_cache
          /\ key_history' = key_history]_vars

\* C31 witness: a rotation was refused to a logged-out doctor although the
\* KeyManager still holds the patient's current key.
C31_Witness ==
    /\ ret.op = "rotate_patient_key"
    /\ ret.result = "CryptoError"
    /\ ret.doctor_id \notin DOMAIN master_keys
    /\ ret.patient_id \in DOMAIN key_cache
    /\ Last(access_logs).action = "logout"

\* C32: Facade.get_session(id) never raises.  It returns the cached SessionInfo
\* when the session is valid, and None for an unknown id and for a cached session
\* that has expired or been revoked, whose cache entry it removes; on such a
\* session Facade.revoke_session(id) returns false.
C32_GetSessionNeverRaises ==
    [][LET sid == ret'.session_id
           cached == sid \in DOMAIN facade.sessions_cache
           valid == /\ sid \in DOMAIN sessions
                    /\ sessions[sid].is_active
                    /\ ~is_expired(sessions[sid], now)
       IN  /\ (ret'.op = "facade_get_session")
              => /\ ret'.result = IF cached /\ valid THEN "ok" ELSE "None"
                 /\ sid \in DOMAIN facade'.sessions_cache <=> (cached /\ valid)
           /\ (ret'.op = "facade_revoke_session" /\ ~(cached /\ valid))
              => ret'.result = "false"]_vars

\* C33: facade ownership gating.  A patient enters the registry, with doctor d as
\* its owner, only by a successful add_patient of d.  add_medical_record(d, p)
\* stores a record, create_session(d, p) returns a session and
\* decrypt_medical_record(d, r) returns plaintext only for the owner of the patient
\* concerned; for any other doctor they return the failure value, store nothing
\* and encrypt or decrypt nothing.
Owns(d, p) == p \in DOMAIN facade.patients /\ facade.patients[p].doctor_id = d

C33_OwnershipGating ==
    [][/\ \A p \in DOMAIN facade'.patients :
             (p \notin DOMAIN facade.patients
              \/ facade'.patients[p].doctor_id # facade.patients[p].doctor_id)
             => /\ ret'.op = "add_patient"
                /\ ret'.result = "ok"
                /\ ret'.patient_id = p
                /\ ret'.doctor_id = facade'.patients[p].doctor_id
       /\ (ret'.op = "add_medical_record" /\ ~Owns(ret'.doctor_id, ret'.patient_id))
          => /\ ret'.result = "failure"
             /\ UNCHANGED <<facade, issued, stats, access_logs, patient_keys, data_keys>>
       /\ (ret'.op = "facade_create_session"
           /\ ~Owns(ret'.doctor_id, ret'.patient_id))
          => /\ ret'.result = "None"
             /\ UNCHANGED <<facade, sessions, stats, access_logs>>
       /\ (ret'.op = "decrypt_medical_record" /\ ret'.arg.case # "own")
          => /\ ret'.result = "failure"
             /\ UNCHANGED <<facade, stats, access_logs>>]_vars

\* C33 witness: a doctor was refused a record for a patient that another doctor
\* added and has a record of.
C33_Witness ==
    /\ ret.op = "add_medical_record"
    /\ ret.result = "failure"
    /\ ret.patient_id \in DOMAIN facade.patients
    /\ facade.patients[ret.patient_id].doctor_id # ret.doctor_id
    /\ \E r \in DOMAIN facade.medical_records :
           facade.medical_records[r].patient_id = ret.patient_id

C35_DataKeyNeedsMasterKey ==
    \A d \in Doctors, p \in Patients :
        get_patient_key(patient_keys, d, p) # NoKeyId => d \in DOMAIN master_keys

\* C35 witness: a doctor who had set up a patient has logged out; the KeyManager
\* still holds the patient's key, the SecuritySystem no longer caches one for the
\* doctor.
C35_Witness ==
    /\ ret.op = "logout_doctor"
    /\ ret.result = "true"
    /\ key_cache # EmptyDict
    /\ ret.doctor_id \notin DOMAIN master_keys
    /\ \A p \in Patients : get_patient_key(patient_keys, ret.doctor_id, p) = NoKeyId

\* C36: once every thread's call has returned, and the calls were successful
\* rotate_patient_key and encrypt_patient_data calls for (d, p) with a rotation
\* among them, the SecuritySystem's cached key for (d, p) is the KeyManager's
\* current key for p and the only key of p's history that is not marked rotated;
\* and every encrypt used a key of p's history.
C36_AtomicRotation ==
    (/\ Quiescent
     /\ \E t \in Threads : threads[t].op = "rotate_patient_key"
     /\ \A t \in Threads :
            threads[t].pc = "done"
            => /\ threads[t].op \in {"rotate_patient_key", "encrypt_patient_data"}
               /\ threads[t].result = "ok")
    => \A t \in Threads :
           threads[t].pc = "done"
           => LET d == threads[t].doctor_id
                  p == threads[t].patient_id
              IN  /\ threads[t].key \in key_history[p]
                  /\ get_patient_key(patient_keys, d, p) = key_cache[p]
                  /\ {k \in key_history[p] : data_keys[k].last_rotated = -1}
                       = {key_cache[p]}

\* C37: of the threads that call revoke_session on one session, directly or
\* through validate_session on an expired session, at most one has its
\* revoke_session return true, and once all have returned the log has one
\* 'revoke_session' event for each session that is no longer active.
C37_ExclusiveRevocation ==
    /\ \A sid \in DOMAIN sessions :
           Cardinality({t \in Threads : /\ threads[t].session_id = sid
                                        /\ threads[t].revoked = "true"}) <= 1
    /\ Quiescent
       => Cardinality({i \in DOMAIN access_logs :
                          access_logs[i].action = "revoke_session"})
          = Cardinality({sid \in DOMAIN sessions : ~sessions[sid].is_active})

\* C38: once every thread's call has returned, each counter equals the number of
\* calls that succeeded: encryptions and decryptions the number of successes
\* logged, sessions_created the number of sessions made.
C38_NoLostUpdate ==
    Quiescent
    => /\ stats.encryptions
            = Cardinality({i \in DOMAIN access_logs :
                              /\ access_logs[i].action = "encrypt_data"
                              /\ access_logs[i].success})
       /\ stats.decryptions
            = Cardinality({i \in DOMAIN access_logs :
                              /\ access_logs[i].action = "decrypt_data"
                              /\ access_logs[i].success})
       /\ stats.sessions_created = Len(sessions)

\* C39: revoke_token(t) leaves t in the revoked set, a token in the revoked set
\* stays in it whatever is called next, and verify_token of a token in the
\* revoked set raises TokenInvalidError.
C39_RevocationPermanent ==
    [][/\ (ret'.op = "revoke_token" /\ ret'.arg \in Tokens)
          => ret'.arg \in revoked_tokens'.named
       /\ revoked_tokens.named \subseteq revoked_tokens'.named
       /\ (ret'.op = "verify_token" /\ ret'.arg \in revoked_tokens.named)
          => ret'.result = "TokenInvalidError"]_vars

====
